---------------------------- MODULE Spec2Model ----------------------------
(***************************************************************************)
(* A model of ToyLisp (src/ToyLisp.c): the cons heap with its mark-and-    *)
(* sweep collector, the symbol table, the reader, environments, the        *)
(* trampolined evaluator with its explicit frame stack, the printer, and   *)
(* the two top-level drivers (load_file and the prompt loop of main).      *)
(*                                                                         *)
(* Representation.                                                         *)
(*  - An Atom is a record [type, v].  v is the integer of an Integer, the  *)
(*    cell address of a Pair/Closure/Macro, the address of the strdup'ed   *)
(*    name of a Symbol (an index into names), the function of a Builtin,   *)
(*    and 0 for nil.                                                       *)
(*  - mem maps the address of every allocated struct Allocation to its     *)
(*    pair and mark; global_allocations is the linked list of them, most   *)
(*    recent first.  malloc never hands an address out twice here (brk     *)
(*    counts up), so a pointer to a freed cell stays recognisable.         *)
(*  - Reading through a pointer to a freed cell is undefined behaviour:    *)
(*    the read yields the indeterminate atom Freed, the step that did it   *)
(*    sets fault to "freed", and the run stops there (no outcome is chosen *)
(*    for it).  car/cdr of an atom that holds no cell pointer (nil, an     *)
(*    integer, a symbol) yields Wild and sets fault to "wild"; a local     *)
(*    that was never assigned holds Uninit, and using it sets "uninit".    *)
(*  - Text is a sequence of one-character strings; NUL is the terminator.  *)
(*  - Operators that model C functions taking the interpreter state take   *)
(*    a record s holding the heap and symbol table fields (and, for the    *)
(*    evaluator, the registers expr/env/stack/result/err) and return the   *)
(*    updated record; a function's return value is left in s.ret.          *)
(***************************************************************************)
EXTENDS Integers, Sequences, FiniteSets, TLC

VARIABLES
    mem, global_allocations, brk,      \* the heap
    sym_table, names,                  \* interned symbols and their strdup'ed names
    count,                             \* eval_expr's static iteration counter
    expr, env, stack, result, err,     \* registers of the running eval_expr
    ctx,                               \* suspended C frames (eval_expr -> builtin -> apply)
    pc,                                \* position of the driver
    genv, line, lerr,                  \* main's env, expr and err (load_file's expr, too)
    stdin, lib, libpos,                \* remaining input lines; library.lisp and read position
    out,                               \* what has been printed, one entry per print
    fault,                             \* "none", or the invalid memory access that happened
    hist                               \* history (ghost) record used to state the claims

vars == <<mem, global_allocations, brk, sym_table, names, count, expr, env, stack,
          result, err, ctx, pc, genv, line, lerr, stdin, lib, libpos, out, fault, hist>>

-----------------------------------------------------------------------------
(* Atoms *)

Nil == [type |-> "Nil", v |-> 0]

\* what a read of freed memory yields
Freed == [type |-> "Freed", v |-> 0]

\* what a read through something that is no cell pointer yields
Wild == [type |-> "Wild", v |-> 0]

\* what an Atom local holds before its first assignment
Uninit == [type |-> "Uninit", v |-> 0]

Poison(atom) == atom.type \in {"Freed", "Wild", "Uninit"}

make_int(x) == [type |-> "Integer", v |-> x]

make_builtin(fn) == [type |-> "Builtin", v |-> fn]

SymAtom(p) == [type |-> "Symbol", v |-> p]

PairAtom(a) == [type |-> "Pair", v |-> a]

Retag(atom, t) == [atom EXCEPT !.type = t]

nilp(atom) == atom.type = "Nil"

HeapTypes == {"Pair", "Closure", "Macro"}

Error_OK == "OK"

Error_Syntax == "Syntax"

Error_Unbound == "Unbound"

Error_Args == "Args"

Error_Type == "Type"

Range(f) == {f[i] : i \in DOMAIN f}

-----------------------------------------------------------------------------
(* The heap: car/cdr, cons, gc_mark, gc *)

\* p points at an allocated cell
Live(s, p) == p.type \in HeapTypes /\ p.v \in DOMAIN s.mem

\* what dereferencing p yields when p points at no allocated cell
Deref(p) == IF p.type \in HeapTypes \cup {"Freed"} THEN Freed ELSE Wild

\* record an invalid access; the first one stands
Fault(s, atom) ==
    IF s.fault # "none" \/ ~Poison(atom) THEN s
    ELSE [s EXCEPT !.fault = CASE atom = Freed -> "freed" [] atom = Wild -> "wild"
                                  [] OTHER -> "uninit"]

\* Sequencing: the call that yielded s1 has returned and K is what the function
\* does next with the state it left.  What follows an invalid access is not
\* modelled: the state it left is returned as it is, and the run ends there.
Bind(s1, K(_)) == IF s1.fault = "none" THEN K(s1) ELSE s1

\* v is a value the code keeps in a local and reads more than once
Let(v, K(_)) == K(v)

car(s, p) == IF Live(s, p) THEN s.mem[p.v].car ELSE Deref(p)

cdr(s, p) == IF Live(s, p) THEN s.mem[p.v].cdr ELSE Deref(p)

\* car(p) = x
SetCar(s, p, x) ==
    IF ~Live(s, p) THEN Fault(s, Deref(p))
    ELSE IF Poison(x) THEN Fault(s, x)
    ELSE [s EXCEPT !.mem[p.v].car = x]

\* cdr(p) = x
SetCdr(s, p, x) ==
    IF ~Live(s, p) THEN Fault(s, Deref(p))
    ELSE IF Poison(x) THEN Fault(s, x)
    ELSE [s EXCEPT !.mem[p.v].cdr = x]

cons(s, car_val, cdr_val) ==
    LET a == s.brk
        s1 == Fault(Fault(s, car_val), cdr_val)
    IN [s1 EXCEPT !.mem = (a :> [car |-> car_val, cdr |-> cdr_val, mark |-> FALSE]) @@ s.mem,
                  !.global_allocations = <<a>> \o s.global_allocations,
                  !.brk = a + 1,
                  !.ret = PairAtom(a)]

RECURSIVE gc_mark_car(_, _)
\* a variant of gc_mark that follows the car of a cell but not its cdr
gc_mark_car(s, root) ==
    IF Live(s, root) /\ ~s.mem[root.v].mark
    THEN gc_mark_car([s EXCEPT !.mem[root.v].mark = TRUE], car(s, root))
    ELSE IF root.type \in HeapTypes /\ ~Live(s, root) THEN Fault(s, Freed)
    ELSE s

RECURSIVE gc_mark(_, _)
\* a root that is no cell pointer, or whose cell is marked, is left alone; a
\* pointer to a freed cell makes gc_mark read freed memory
gc_mark(s, root) ==
    IF Live(s, root) /\ ~s.mem[root.v].mark
    THEN gc_mark(gc_mark([s EXCEPT !.mem[root.v].mark = TRUE], car(s, root)), cdr(s, root))
    ELSE IF root.type \in HeapTypes /\ ~Live(s, root) THEN Fault(s, Freed)
    ELSE s

\* the sweep: unlink and free every unmarked allocation
Sweep(s) ==
    LET kept == SelectSeq(s.global_allocations, LAMBDA a : s.mem[a].mark)
    IN [s EXCEPT !.global_allocations = kept,
                 !.mem = [a \in Range(kept) |-> s.mem[a]]]

\* a variant of ClearMarks that leaves the marks as they are
ClearMarks_none(s) == s

ClearMarks(s) == [s EXCEPT !.mem = [a \in DOMAIN s.mem |-> [s.mem[a] EXCEPT !.mark = FALSE]]]

\* a variant of gc that does not mark the symbol table before the sweep
gc_sweep_only(s) == ClearMarks(Sweep(s))

gc(s) == ClearMarks(Sweep(gc_mark(s, s.sym_table)))

-----------------------------------------------------------------------------
(* Symbols *)

RECURSIVE SymLookup(_, _, _)
\* the loop of make_sym: the first entry of the table whose name is s, or Nil
SymLookup(s, p, str) ==
    IF Live(s, p) /\ s.names[car(s, p).v] # str THEN SymLookup(s, cdr(s, p), str)
    ELSE IF Live(s, p) THEN car(s, p)
    ELSE Nil

make_sym(s, str) ==
    Let(SymLookup(s, s.sym_table, str), LAMBDA found :
        IF ~nilp(found) THEN [s EXCEPT !.ret = found]
        ELSE Let(SymAtom(Len(s.names) + 1), LAMBDA a :
                 Bind(cons([s EXCEPT !.names = Append(s.names, str)], a, s.sym_table),
                      LAMBDA s1 : [s1 EXCEPT !.sym_table = s1.ret, !.ret = a])))

\* The symbols main interns at startup and keeps in statics (sym_t, sym_quote, ...):
\* the table entry of that name.  Nil before main has interned it.
STR_t == <<"t">>

STR_nil == <<"n", "i", "l">>

STR_quote == <<"q", "u", "o", "t", "e">>

STR_define == <<"d", "e", "f", "i", "n", "e">>

STR_lambda == <<"l", "a", "m", "b", "d", "a">>

STR_if == <<"i", "f">>

STR_defmacro == <<"d", "e", "f", "m", "a", "c", "r", "o">>

STR_apply == <<"a", "p", "p", "l", "y">>

\* main interns them before anything else, so the name of each sits in names at
\* its place in that order, and make_sym never moves a name
Static(s, str) ==
    IF \E i \in DOMAIN s.names : s.names[i] = str
    THEN SymAtom(CHOOSE i \in DOMAIN s.names : s.names[i] = str)
    ELSE Nil

sym_t(s) == Static(s, STR_t)

sym_quote(s) == Static(s, STR_quote)

sym_define(s) == Static(s, STR_define)

sym_lambda(s) == Static(s, STR_lambda)

sym_if(s) == Static(s, STR_if)

sym_defmacro(s) == Static(s, STR_defmacro)

sym_apply(s) == Static(s, STR_apply)

-----------------------------------------------------------------------------
(* Text and the lexer *)

NUL == "NUL"

At(str, i) == IF i \in 1..Len(str) THEN str[i] ELSE NUL

ws == {" ", "\t", "\r", "\n"}

delim == {"(", ")"} \cup ws

\* the backquote character (written as a name: the character cannot appear in a string here)
BQ == "BQ"

prefix == {"(", ")", "'", BQ}

RECURSIVE strspn_ws(_, _)
\* str + strspn(str, ws)
strspn_ws(str, i) == IF At(str, i) \in ws THEN strspn_ws(str, i + 1) ELSE i

RECURSIVE strcspn_delim(_, _)
\* str + strcspn(str, delim)
strcspn_delim(str, i) ==
    IF At(str, i) = NUL \/ At(str, i) \in delim THEN i ELSE strcspn_delim(str, i + 1)

\* positions are indices into the text; 0 is the NULL pointer
lex(str, i) ==
    LET b == strspn_ws(str, i)
    IN IF At(str, b) = NUL THEN [err |-> Error_Syntax, start |-> 0, end |-> 0]
       ELSE [err |-> Error_OK, start |-> b,
             end |-> IF At(str, b) \in prefix THEN b + 1
                     ELSE IF At(str, b) = "," THEN b + (IF At(str, b + 1) = "@" THEN 2 ELSE 1)
                     ELSE strcspn_delim(str, b)]

Digits == <<"0", "1", "2", "3", "4", "5", "6", "7", "8", "9">>

IsDigit(c) == \E d \in 1..10 : Digits[d] = c

DigitVal(c) == (CHOOSE d \in 1..10 : Digits[d] = c) - 1

RECURSIVE strtol_digits(_, _, _)
\* the digit loop of strtol: [val, p] after the longest run of digits at i
strtol_digits(str, i, acc) ==
    IF IsDigit(At(str, i)) THEN strtol_digits(str, i + 1, acc * 10 + DigitVal(At(str, i)))
    ELSE [val |-> acc, p |-> i]

\* strtol(start, &p, 10): optional sign, then digits; p = start when there is no digit
strtol(str, start) ==
    LET signed == At(str, start) \in {"+", "-"}
        b      == IF signed THEN start + 1 ELSE start
        d      == strtol_digits(str, b, 0)
    IN IF d.p = b THEN [val |-> 0, p |-> start]
       ELSE [val |-> IF At(str, start) = "-" THEN 0 - d.val ELSE d.val, p |-> d.p]

STR_quasiquote == <<"q", "u", "a", "s", "i", "q", "u", "o", "t", "e">>

STR_unquote == <<"u", "n", "q", "u", "o", "t", "e">>

STR_unquote_splicing == <<"u", "n", "q", "u", "o", "t", "e", "-", "s", "p", "l", "i", "c", "i", "n", "g">>

\* parse_simple always succeeds; the atom is left in ret
parse_simple(s, str, start, end) ==
    LET n   == strtol(str, start)
        buf == SubSeq(str, start, end - 1)
    IN IF n.p = end THEN [s EXCEPT !.ret = make_int(n.val)]
       ELSE IF buf = STR_nil THEN [s EXCEPT !.ret = Nil]
       ELSE make_sym(s, buf)

RECURSIVE read_expr(_, _, _, _)
RECURSIVE read_list_loop(_, _, _, _, _)

\* a variant of read_list_loop that takes a dot before the first item for an item
read_list_loop_dotitem(s, str, end, res, p) ==
    LET t   == lex(str, end)
        tok == IF t.err # Error_OK THEN "error"
               ELSE IF str[t.start] = ")" THEN "close"
               ELSE IF str[t.start] = "." /\ t.end - t.start = 1 /\ ~nilp(p) THEN "dot"
               ELSE "item"
        s1  == read_expr(s, str, IF tok = "dot" THEN t.end ELSE t.start, Uninit)
        s2  == cons(s1, s1.ret, Nil)
    IN CASE tok = "error" -> [s EXCEPT !.ret = res, !.rerr = t.err, !.rend = t.end]
         [] tok = "close" -> [s EXCEPT !.ret = res, !.rerr = Error_OK, !.rend = t.end]
         [] tok \in {"dot", "item"} /\ s1.rerr # Error_OK -> [s1 EXCEPT !.ret = res]
         [] tok = "dot" /\ s1.rerr = Error_OK ->
                LET t2 == lex(str, s1.rend)
                IN [SetCdr(s1, p, s1.ret) EXCEPT
                       !.ret = res, !.rend = t2.end,
                       !.rerr = IF t2.err = Error_OK /\ str[t2.start] # ")"
                                THEN Error_Syntax ELSE t2.err]
         [] tok = "item" /\ s1.rerr = Error_OK /\ nilp(p) ->
                read_list_loop(s2, str, s1.rend, s2.ret, s2.ret)
         [] tok = "item" /\ s1.rerr = Error_OK /\ ~nilp(p) ->
                read_list_loop(SetCdr(s2, p, s2.ret), str, s1.rend, res, s2.ret)

\* The for (;;) of read_list.  end is *end, res is *result (the list so far),
\* p its last cell.  Returns s with ret = *result, rerr the error, rend = *end.
read_list_loop(s, str, end, res, p) ==
    LET t   == lex(str, end)
        tok == IF t.err # Error_OK THEN "error"
               ELSE IF str[t.start] = ")" THEN "close"
               ELSE IF str[t.start] = "." /\ t.end - t.start = 1 THEN "dot"
               ELSE "item"
        s1  == read_expr(s, str, IF tok = "dot" THEN t.end ELSE t.start, Uninit)
        s2  == cons(s1, s1.ret, Nil)
    IN CASE tok = "error" -> [s EXCEPT !.ret = res, !.rerr = t.err, !.rend = t.end]
         [] tok = "close" -> [s EXCEPT !.ret = res, !.rerr = Error_OK, !.rend = t.end]
         \* improper list
         [] tok = "dot" /\ nilp(p) -> [s EXCEPT !.ret = res, !.rerr = Error_Syntax, !.rend = t.end]
         [] tok \in {"dot", "item"} /\ ~(tok = "dot" /\ nilp(p)) /\ s1.rerr # Error_OK ->
                [s1 EXCEPT !.ret = res]
         [] tok = "dot" /\ ~nilp(p) /\ s1.rerr = Error_OK ->
                LET t2 == lex(str, s1.rend)
                IN [SetCdr(s1, p, s1.ret) EXCEPT
                       !.ret = res, !.rend = t2.end,
                       !.rerr = IF t2.err = Error_OK /\ str[t2.start] # ")"
                                THEN Error_Syntax ELSE t2.err]
         [] tok = "item" /\ s1.rerr = Error_OK /\ nilp(p) ->
                read_list_loop(s2, str, s1.rend, s2.ret, s2.ret)
         [] tok = "item" /\ s1.rerr = Error_OK /\ ~nilp(p) ->
                read_list_loop(SetCdr(s2, p, s2.ret), str, s1.rend, res, s2.ret)

read_list(s, str, start) == read_list_loop(s, str, start, Nil, Nil)

\* the quote, quasiquote, unquote and unquote-splicing prefixes: *result = (sym nil), then read into the car of its cdr
ReadQuoted(s, str, end, symname) ==
    Bind(make_sym(s, symname), LAMBDA s1 :
    Bind(cons(s1, Nil, Nil), LAMBDA s2 :
    Bind(cons(s2, s1.ret, s2.ret), LAMBDA s3 :
    Bind(read_expr(s3, str, end, Nil), LAMBDA s4 :
         [SetCar(s4, s2.ret, s4.ret) EXCEPT !.ret = s3.ret]))))

\* old is what *result held before the call; it is left there when nothing is stored
read_expr(s, str, input, old) ==
    LET t == lex(str, input)
        c == IF t.err = Error_OK THEN str[t.start] ELSE NUL
    IN CASE t.err # Error_OK -> [s EXCEPT !.ret = old, !.rerr = t.err, !.rend = t.end]
         [] c = "(" -> read_list(s, str, t.end)
         [] c = ")" -> [s EXCEPT !.ret = old, !.rerr = Error_Syntax, !.rend = t.end]
         [] c = "'" -> ReadQuoted(s, str, t.end, STR_quote)
         [] c = BQ -> ReadQuoted(s, str, t.end, STR_quasiquote)
         [] c = "," ->
                ReadQuoted(s, str, t.end,
                           IF At(str, t.start + 1) = "@" THEN STR_unquote_splicing ELSE STR_unquote)
         [] t.err = Error_OK /\ c \notin {"(", ")", "'", BQ, ","} ->
                [parse_simple(s, str, t.start, t.end) EXCEPT !.rerr = Error_OK, !.rend = t.end]

-----------------------------------------------------------------------------
(* Environments and list helpers *)

env_create(s, parent) ==
    Bind(cons(s, parent, Nil), LAMBDA s1 : [s1 EXCEPT !.hist.envs = @ \cup {s1.ret.v}])

RECURSIVE FindBinding(_, _, _)
\* the while loop shared by env_get and env_set: the binding cell of symbol in the
\* list bs, Nil when there is none, Freed or Wild when the walk leaves allocated memory
FindBinding(s, bs, symbol) ==
    IF Live(s, bs) /\ Live(s, car(s, bs)) /\ car(s, car(s, bs)).v # symbol.v
    THEN FindBinding(s, cdr(s, bs), symbol)
    ELSE IF nilp(bs) THEN Nil
    ELSE IF ~Live(s, bs) THEN Deref(bs)
    ELSE IF ~Live(s, car(s, bs)) THEN Deref(car(s, bs))
    ELSE car(s, bs)

RECURSIVE env_get(_, _, _)
\* [err, val]: val is *result when err is OK
env_get(s, e, symbol) ==
    LET parent == car(s, e)
        b      == FindBinding(s, cdr(s, e), symbol)
    IN IF Poison(b) THEN [err |-> Error_OK, val |-> b]
       ELSE IF Poison(parent) THEN [err |-> Error_OK, val |-> parent]
       ELSE IF ~nilp(b) THEN [err |-> Error_OK, val |-> cdr(s, b)]
       ELSE IF nilp(parent) THEN [err |-> Error_Unbound, val |-> Nil]
       ELSE env_get(s, parent, symbol)

\* a variant of env_set that prepends a binding without looking for one
env_set_prepend(s, e, symbol, value) ==
    LET s0 == [s EXCEPT !.hist.setenv = @ \cup {e.v},
                        !.hist.lastset = [env |-> e, sym |-> symbol, val |-> value]]
        s1 == cons(s0, symbol, value)
        s2 == cons(s1, s1.ret, cdr(s1, e))
    IN SetCdr(s2, e, s2.ret)

RECURSIVE FindOuter(_, _, _)
\* the binding cell of symbol in e or the nearest ancestor that has one
FindOuter(s, e, symbol) ==
    LET b == FindBinding(s, cdr(s, e), symbol)
    IN IF ~nilp(b) \/ ~Live(s, car(s, e)) THEN b ELSE FindOuter(s, car(s, e), symbol)

\* a variant of env_set that updates the binding of an ancestor when there is one
env_set_outer(s, e, symbol, value) ==
    LET b  == FindOuter(s, e, symbol)
        s0 == [s EXCEPT !.hist.setenv = @ \cup {e.v},
                        !.hist.lastset = [env |-> e, sym |-> symbol, val |-> value]]
    IN IF Poison(b) THEN Fault(s0, b)
       ELSE IF ~nilp(b) THEN SetCdr(s0, b, value)
       ELSE LET s1 == cons(s0, symbol, value)
                s2 == cons(s1, s1.ret, cdr(s1, e))
            IN SetCdr(s2, e, s2.ret)

env_set(s, e, symbol, value) ==
    Let([s EXCEPT !.hist.setenv = @ \cup {e.v},
                  !.hist.lastset = [env |-> e, sym |-> symbol, val |-> value]], LAMBDA s0 :
    Let(FindBinding(s, cdr(s, e), symbol), LAMBDA b :
        IF Poison(b) THEN Fault(s0, b)
        ELSE IF ~nilp(b) THEN SetCdr(s0, b, value)
        ELSE Bind(cons(s0, symbol, value), LAMBDA s1 :
             Bind(cons(s1, s1.ret, cdr(s1, e)), LAMBDA s2 :
                  SetCdr(s2, e, s2.ret)))))

RECURSIVE listp(_, _)
listp(s, e) ==
    IF e.type = "Pair" /\ Live(s, e) THEN listp(s, cdr(s, e)) ELSE nilp(e)

RECURSIVE nthcdr(_, _, _)
nthcdr(s, list, k) == IF k = 0 THEN list ELSE nthcdr(s, cdr(s, list), k - 1)

list_get(s, list, k) == car(s, nthcdr(s, list, k))

\* the cell p is about to be written by list_set or list_reverse
Touch(s, p) == IF Live(s, p) THEN [s EXCEPT !.hist.touched = @ \cup {p.v}] ELSE s

list_set(s, list, k, value) ==
    SetCar(Touch(s, nthcdr(s, list, k)), nthcdr(s, list, k), value)

RECURSIVE list_reverse_loop(_, _, _)
\* the while loop of list_reverse; the reversed list is left in ret
list_reverse_loop(s, list, tail) ==
    IF nilp(list) THEN [s EXCEPT !.ret = tail]
    ELSE IF ~Live(s, list) THEN [Fault(s, Deref(list)) EXCEPT !.ret = Deref(list)]
    ELSE list_reverse_loop(SetCdr(Touch(s, list), list, tail), cdr(s, list), list)

\* a variant of list_reverse that leaves the list as it is
list_reverse_none(s, list) == [s EXCEPT !.ret = list]

list_reverse(s, list) == list_reverse_loop(s, list, Nil)

\* slots of a frame, as list_get/list_set index them
F_PARENT == 0
F_ENV == 1
F_OP == 2
F_TAIL == 3
F_ARGS == 4
F_BODY == 5

make_frame(s, parent, e, tail) ==
    Bind(cons(s, Nil, Nil), LAMBDA s1 :                \* body
    Bind(cons(s1, Nil, s1.ret), LAMBDA s2 :            \* args
    Bind(cons(s2, tail, s2.ret), LAMBDA s3 :
    Bind(cons(s3, Nil, s3.ret), LAMBDA s4 :            \* op
    Bind(cons(s4, e, s4.ret), LAMBDA s5 :
    Bind(cons(s5, parent, s5.ret), LAMBDA s6 :
         [s6 EXCEPT !.hist.framecells = @ \cup (s.brk..(s6.brk - 1))]))))))

RECURSIVE ArgNamesOK(_, _)
\* the check of make_closure that the argument names are all symbols
ArgNamesOK(s, p) ==
    IF nilp(p) \/ p.type = "Symbol" THEN TRUE
    ELSE IF p.type # "Pair" \/ ~Live(s, p) \/ car(s, p).type # "Symbol" THEN FALSE
    ELSE ArgNamesOK(s, cdr(s, p))

RECURSIVE Cells(_, _)
\* the cells of the structure v is made of
Cells(s, v) ==
    IF v.type = "Pair" /\ Live(s, v)
    THEN {v.v} \cup Cells(s, car(s, v)) \cup Cells(s, cdr(s, v))
    ELSE {}

\* the cells in S as they are in s
Snapshot(s, S) == [a \in S |-> [car |-> s.mem[a].car, cdr |-> s.mem[a].cdr]]

\* rerr is the returned Error; *result is left in ret (untouched on an error)
make_closure(s, e, args, body) ==
    IF ~listp(s, body) THEN [s EXCEPT !.rerr = Error_Syntax]
    ELSE IF ~ArgNamesOK(s, args) THEN [s EXCEPT !.rerr = Error_Type]
    ELSE Bind(cons(s, args, body), LAMBDA s1 :
         Bind(cons(s1, e, s1.ret), LAMBDA s2 :
              [s2 EXCEPT !.ret = Retag(s2.ret, "Closure"), !.rerr = Error_OK,
                         !.hist.closed =
                             Snapshot(s2, {s1.ret.v, s2.ret.v} \cup Cells(s, args)
                                              \cup Cells(s, body)) @@ @]))

RECURSIVE BindArgs(_, _, _, _)
\* a variant of BindArgs without the check for arguments that are left over
BindArgs_lax(s, e, arg_names, args) ==
    IF nilp(arg_names) THEN [s EXCEPT !.rerr = Error_OK]
    ELSE IF arg_names.type = "Symbol"
    THEN [env_set(s, e, arg_names, args) EXCEPT !.rerr = Error_OK]
    ELSE IF ~Live(s, arg_names) THEN [Fault(s, Deref(arg_names)) EXCEPT !.rerr = Error_OK]
    ELSE IF nilp(args) THEN [s EXCEPT !.rerr = Error_Args]
    ELSE BindArgs(env_set(s, e, car(s, arg_names), car(s, args)), e,
                  cdr(s, arg_names), cdr(s, args))

\* the "Bind the arguments" loop of apply and eval_do_bind, with the check after it
BindArgs(s, e, arg_names, args) ==
    IF nilp(arg_names)
    THEN [s EXCEPT !.rerr = IF nilp(args) THEN Error_OK ELSE Error_Args]
    ELSE IF arg_names.type = "Symbol"
    THEN [env_set(s, e, arg_names, args) EXCEPT !.rerr = Error_OK]
    ELSE IF ~Live(s, arg_names) THEN [Fault(s, Deref(arg_names)) EXCEPT !.rerr = Error_OK]
    ELSE IF nilp(args) THEN [s EXCEPT !.rerr = Error_Args]
    ELSE Bind(env_set(s, e, car(s, arg_names), car(s, args)), LAMBDA s1 :
              BindArgs(s1, e, cdr(s, arg_names), cdr(s, args)))

-----------------------------------------------------------------------------
(* Built-in procedures and apply *)

\* the native procedures; a Builtin atom holds the index of its function here
Builtins == <<"car", "cdr", "cons", "add", "subtract", "multiply", "divide",
              "numeq", "less", "apply", "eq", "pairp">>

FnPtr(name) == CHOOSE i \in DOMAIN Builtins : Builtins[i] = name

\* the division of C truncates toward zero
CDiv(a, b) ==
    LET q == (IF a < 0 THEN 0 - a ELSE a) \div (IF b < 0 THEN 0 - b ELSE b)
    IN IF (a < 0) = (b < 0) THEN q ELSE 0 - q

\* a division by zero traps: the process dies, no Error is returned
SIGFPE == "sigfpe"

Arity1(s, args) == ~nilp(args) /\ nilp(cdr(s, args))

Arity2(s, args) == ~nilp(args) /\ ~nilp(cdr(s, args)) /\ nilp(cdr(s, cdr(s, args)))

Returns(s, e, val) == [s EXCEPT !.err = e, !.result = IF e = Error_OK THEN val ELSE @]

builtin_car(s, args) ==
    LET a == car(s, args)
    IN IF ~Arity1(s, args) THEN Returns(s, Error_Args, Nil)
       ELSE IF nilp(a) THEN Returns(s, Error_OK, Nil)
       ELSE IF a.type # "Pair" THEN Returns(s, Error_Type, Nil)
       ELSE Returns(s, Error_OK, car(s, a))

builtin_cdr(s, args) ==
    LET a == car(s, args)
    IN IF ~Arity1(s, args) THEN Returns(s, Error_Args, Nil)
       ELSE IF nilp(a) THEN Returns(s, Error_OK, Nil)
       ELSE IF a.type # "Pair" THEN Returns(s, Error_Type, Nil)
       ELSE Returns(s, Error_OK, cdr(s, a))

builtin_cons(s, args) ==
    IF ~Arity2(s, args) THEN Returns(s, Error_Args, Nil)
    ELSE Bind(cons(s, car(s, args), car(s, cdr(s, args))), LAMBDA s1 :
              Returns(s1, Error_OK, s1.ret))

\* the five arithmetic and comparison builtins differ only in the operation
IntOp(s, args, name) ==
    LET a == car(s, args)
        b == car(s, cdr(s, args))
        t == sym_t(s)
    IN IF ~Arity2(s, args) THEN Returns(s, Error_Args, Nil)
       ELSE IF a.type # "Integer" \/ b.type # "Integer" THEN Returns(s, Error_Type, Nil)
       ELSE IF name = "divide" /\ b.v = 0 THEN [s EXCEPT !.fault = SIGFPE]
       ELSE Returns(s, Error_OK,
              CASE name = "add"      -> make_int(a.v + b.v)
                [] name = "subtract" -> make_int(a.v - b.v)
                [] name = "multiply" -> make_int(a.v * b.v)
                [] name = "divide"   -> make_int(CDiv(a.v, b.v))
                [] name = "numeq"    -> IF a.v = b.v THEN t ELSE Nil
                [] name = "less"     -> IF a.v < b.v THEN t ELSE Nil)

builtin_eq(s, args) ==
    LET a == car(s, args)
        b == car(s, cdr(s, args))
        t == sym_t(s)
    IN IF ~Arity2(s, args) THEN Returns(s, Error_Args, Nil)
       ELSE Returns(s, Error_OK, IF a.type = b.type /\ a.v = b.v THEN t ELSE Nil)

builtin_pairp(s, args) ==
    IF ~Arity1(s, args) THEN Returns(s, Error_Args, Nil)
    ELSE Returns(s, Error_OK,
                 IF car(s, args).type = "Pair" THEN sym_t(s) ELSE Nil)

RECURSIVE apply(_, _, _)

\* a variant of builtin_apply that looks at the function before the list
builtin_apply_fnfirst(s, args) ==
    LET fn == car(s, args)
        xs == car(s, cdr(s, args))
    IN IF ~Arity2(s, args) THEN Returns(s, Error_Args, Nil)
       ELSE IF fn.type \notin {"Builtin", "Closure"} THEN Returns(s, Error_Type, Nil)
       ELSE IF ~listp(s, xs) THEN Returns(s, Error_Syntax, Nil)
       ELSE apply(s, fn, xs)

builtin_apply(s, args) ==
    LET fn == car(s, args)
        xs == car(s, cdr(s, args))
    IN IF ~Arity2(s, args) THEN Returns(s, Error_Args, Nil)
       ELSE IF ~listp(s, xs) THEN Returns(s, Error_Syntax, Nil)
       ELSE apply(s, fn, xs)

\* (*fn.value.builtin)(args, result)
CallBuiltin(s, fn, args) ==
    LET name == Builtins[fn.v]
    IN CASE name = "car"   -> builtin_car(s, args)
         [] name = "cdr"   -> builtin_cdr(s, args)
         [] name = "cons"  -> builtin_cons(s, args)
         [] name = "eq"    -> builtin_eq(s, args)
         [] name = "pairp" -> builtin_pairp(s, args)
         [] name = "apply" -> builtin_apply(s, args)
         [] OTHER          -> IntOp(s, args, name)

\* apply up to its "Evaluate the body" loop.  For a closure whose arguments bind,
\* calling is set and callenv/callbody are apply's env and body: the loop itself
\* runs eval_expr once per body form (ApplyBody in the driver below).
apply(s, fn, args) ==
    IF fn.type = "Builtin" THEN CallBuiltin(s, fn, args)
    ELSE IF fn.type # "Closure" THEN Returns(s, Error_Type, Nil)
    ELSE Bind(env_create(s, car(s, fn)), LAMBDA s1 :
         Bind(BindArgs([s1 EXCEPT !.hist.call = [op |-> fn, args |-> args, env |-> s1.ret,
                                                 brk |-> s.brk]],
                       s1.ret, car(s, cdr(s, fn)), args), LAMBDA s2 :
              IF s2.rerr # Error_OK THEN Returns(s2, s2.rerr, Nil)
              ELSE [s2 EXCEPT !.calling = TRUE, !.callenv = s1.ret,
                              !.callbody = cdr(s, cdr(s, fn)), !.err = Error_OK]))

-----------------------------------------------------------------------------
(* The evaluator: the frame service routines.  They work on the registers      *)
(* stack, expr, env and result of s and leave their Error in rerr.             *)

\* a variant of eval_do_exec that keeps the frame for the last body form
eval_do_exec_keep(s) ==
    LET e    == list_get(s, s.stack, F_ENV)
        body == list_get(s, s.stack, F_BODY)
        s1   == list_set(s, s.stack, F_BODY, cdr(s, body))
    IN [s1 EXCEPT !.env = e, !.expr = car(s, body), !.rerr = Error_OK]

eval_do_exec(s) ==
    LET e    == list_get(s, s.stack, F_ENV)
        body == list_get(s, s.stack, F_BODY)
        rest == cdr(s, body)
        s1   == IF nilp(rest)
                THEN [s EXCEPT !.stack = car(s, s.stack)]     \* finished function; pop the stack
                ELSE list_set(s, s.stack, F_BODY, rest)
    IN [s1 EXCEPT !.env = e, !.expr = car(s, body), !.rerr = Error_OK]

\* a variant of eval_do_bind that leaves the arguments in the frame
eval_do_bind_keepargs(s) ==
    LET body == list_get(s, s.stack, F_BODY)
        op   == list_get(s, s.stack, F_OP)
        args == list_get(s, s.stack, F_ARGS)
    IN IF ~nilp(body) THEN eval_do_exec(s)
       ELSE Bind(env_create(s, car(s, op)), LAMBDA s1 :
            Bind(list_set(s1, s.stack, F_ENV, s1.ret), LAMBDA s2 :
            Bind(list_set(s2, s.stack, F_BODY, cdr(s, cdr(s, op))), LAMBDA s3 :
            Bind(BindArgs([s3 EXCEPT !.env = s1.ret, !.hist.entered = op.v,
                                     !.hist.call = [op |-> op, args |-> args, env |-> s1.ret,
                                                    brk |-> s.brk]],
                          s1.ret, car(s, cdr(s, op)), args), LAMBDA s4 :
                 IF s4.rerr # Error_OK THEN s4 ELSE eval_do_exec(s4)))))

eval_do_bind(s) ==
    LET body == list_get(s, s.stack, F_BODY)
        op   == list_get(s, s.stack, F_OP)
        args == list_get(s, s.stack, F_ARGS)
    IN IF ~nilp(body) THEN eval_do_exec(s)
       ELSE Bind(env_create(s, car(s, op)), LAMBDA s1 :
            Bind(list_set(s1, s.stack, F_ENV, s1.ret), LAMBDA s2 :
            Bind(list_set(s2, s.stack, F_BODY, cdr(s, cdr(s, op))), LAMBDA s3 :
            Bind(BindArgs([s3 EXCEPT !.env = s1.ret, !.hist.entered = op.v,
                                     !.hist.call = [op |-> op, args |-> args, env |-> s1.ret,
                                                    brk |-> s.brk]],
                          s1.ret, car(s, cdr(s, op)), args), LAMBDA s4 :
                 IF s4.rerr # Error_OK THEN s4
                 ELSE eval_do_exec(list_set(s4, s.stack, F_ARGS, Nil))))))

\* what a frame has been through: x joins the expressions it has had evaluated,
\* or the values it has been handed
Note(s, field, x) ==
    IF s.stack.v \in DOMAIN s.hist.frames
    THEN [s EXCEPT !.hist.frames[s.stack.v][field] = Append(@, x)]
    ELSE s

\* the part of eval_do_apply after the reversal: op and args are its locals
ApplyOp(s0, op, args) ==
    Let([s0 EXCEPT !.hist.applied = [frame |-> s0.stack, op |-> op, args |-> args,
                                     first |-> nilp(list_get(s0, s0.stack, F_BODY))]],
        LAMBDA s :
    IF op.type = "Builtin"
    THEN Bind(cons(s, op, args), LAMBDA s1 :
              [s1 EXCEPT !.stack = car(s, s.stack), !.expr = s1.ret, !.rerr = Error_OK])
    ELSE IF op.type # "Closure" THEN [s EXCEPT !.rerr = Error_Type]
    ELSE eval_do_bind(s))

eval_do_apply(s) ==
    LET op  == list_get(s, s.stack, F_OP)
        old == list_get(s, s.stack, F_ARGS)
    IN Bind(IF nilp(old) THEN [s EXCEPT !.ret = old]
            ELSE Bind(list_reverse(s, old), LAMBDA r : list_set(r, s.stack, F_ARGS, r.ret)),
            LAMBDA s1 :
       IF op.type = "Symbol" /\ op.v = sym_apply(s).v
       THEN \* replace the current frame; args is s1.ret
            Bind(make_frame(s1, car(s1, s1.stack), s1.env, Nil), LAMBDA s2 :
                 IF ~listp(s2, car(s2, cdr(s2, s1.ret)))
                 THEN [Fault(Fault(s2, car(s2, s1.ret)), car(s2, cdr(s2, s1.ret))) EXCEPT
                          !.stack = s2.ret, !.rerr = Error_Syntax]
                 ELSE Bind(list_set([s2 EXCEPT !.stack = s2.ret], s2.ret, F_OP, car(s2, s1.ret)),
                           LAMBDA s3 :
                      Bind(list_set(s3, s2.ret, F_ARGS, car(s2, cdr(s2, s1.ret))), LAMBDA s4 :
                           ApplyOp(s4, car(s2, s1.ret), car(s2, cdr(s2, s1.ret))))))
       ELSE ApplyOp(s1, op, s1.ret))

\* the tail of eval_do_return shared by its branches: evaluate the next argument,
\* or apply when none is left
NextArg(s) ==
    LET args == list_get(s, s.stack, F_TAIL)
    IN IF nilp(args) THEN eval_do_apply(s)
       ELSE [list_set(Note(s, "exprs", car(s, args)), s.stack, F_TAIL, cdr(s, args)) EXCEPT
                !.expr = car(s, args), !.rerr = Error_OK]

\* store_arg: push the evaluated argument on the frame's args
StoreArg(s) ==
    Bind(cons(Note(s, "vals", s.result), s.result, list_get(s, s.stack, F_ARGS)), LAMBDA s1 :
         NextArg(list_set([s1 EXCEPT !.hist.acccells = @ \cup {s1.ret.v}],
                          s.stack, F_ARGS, s1.ret)))

\* a variant of StoreOp that goes on to the arguments whatever the operator is
StoreOp_evalargs(s) ==
    Bind(list_set([Note(s, "vals", s.result) EXCEPT !.hist.badop =
                      @ \/ s.result.type \notin {"Builtin", "Closure", "Macro"}],
                  s.stack, F_OP, s.result), LAMBDA s1 : NextArg(s1))

\* the operator has just been evaluated: the frame's op slot was still nil
StoreOp(s) ==
    Bind(list_set([Note(s, "vals", s.result) EXCEPT !.hist.badop =
                      @ \/ s.result.type \notin {"Builtin", "Closure", "Macro"}],
                  s.stack, F_OP, s.result), LAMBDA s1 :
         IF s.result.type # "Macro" THEN NextArg(s1)
         ELSE \* a macro: its arguments are not evaluated
              Bind(make_frame([s1 EXCEPT !.hist.mcalls = @ + 1,
                                         !.hist.macro =
                                             [op |-> s.result, frame |-> s.stack,
                                              args |-> list_get(s, s.stack, F_TAIL)]],
                              s1.stack, s1.env, Nil), LAMBDA s2 :
              Bind(list_set([s2 EXCEPT !.stack = s2.ret], s2.ret, F_OP,
                            Retag(s.result, "Closure")), LAMBDA s3 :
              Bind(list_set(s3, s2.ret, F_ARGS, list_get(s, s.stack, F_TAIL)), LAMBDA s4 :
                   eval_do_bind(s4)))))

\* finished working on the special form define
ReturnDefine(s) ==
    Let(list_get(s, s.stack, F_ARGS), LAMBDA sym :
    Bind(env_set(s, s.env, sym, s.result), LAMBDA s1 :
    Bind(cons(s1, sym, Nil), LAMBDA s2 :
    Bind(cons(s2, sym_quote(s), s2.ret), LAMBDA s3 :
         [s3 EXCEPT !.stack = car(s, s.stack), !.expr = s3.ret, !.rerr = Error_OK]))))

\* a variant of ReturnIf with the branches the other way round
ReturnIf_swapped(s) ==
    LET args == list_get(s, s.stack, F_TAIL)
    IN [s EXCEPT !.expr = IF nilp(s.result) THEN car(s, args) ELSE car(s, cdr(s, args)),
                 !.stack = car(s, s.stack), !.rerr = Error_OK]

\* finished evaluating the test of the special form if
ReturnIf(s) ==
    LET args == list_get(s, s.stack, F_TAIL)
    IN [s EXCEPT !.expr = IF nilp(s.result) THEN car(s, cdr(s, args)) ELSE car(s, args),
                 !.stack = car(s, s.stack), !.rerr = Error_OK]

\* a variant of eval_do_return that leaves env as the callee left it
eval_do_return_keepenv(s) ==
    LET op   == list_get(s, s.stack, F_OP)
        body == list_get(s, s.stack, F_BODY)
    IN IF ~nilp(body) THEN eval_do_apply(s)
       ELSE IF nilp(op) THEN StoreOp(s)
       ELSE IF op.type = "Symbol" THEN
            IF op.v = sym_define(s).v THEN ReturnDefine(s)
            ELSE IF op.v = sym_if(s).v THEN ReturnIf(s)
            ELSE StoreArg(s)
       ELSE IF op.type = "Macro"
       THEN [s EXCEPT !.expr = s.result, !.stack = car(s, s.stack), !.rerr = Error_OK]
       ELSE StoreArg(s)

eval_do_return(s0) ==
    LET s    == [s0 EXCEPT !.env = list_get(s0, s0.stack, F_ENV)]
        op   == list_get(s, s.stack, F_OP)
        body == list_get(s, s.stack, F_BODY)
    IN IF ~nilp(body) THEN eval_do_apply(s)     \* still running a procedure; ignore the result
       ELSE IF nilp(op) THEN StoreOp(s)
       ELSE IF op.type = "Symbol" THEN
            IF op.v = sym_define(s).v THEN ReturnDefine(s)
            ELSE IF op.v = sym_if(s).v THEN ReturnIf(s)
            ELSE StoreArg(s)
       ELSE IF op.type = "Macro"
       THEN \* finished evaluating the macro: its value is the expansion
            [s EXCEPT !.expr = s.result, !.stack = car(s, s.stack), !.rerr = Error_OK,
                      !.hist.mexps = @ + 1, !.hist.expanded = s.stack.v]
       ELSE StoreArg(s)

-----------------------------------------------------------------------------
(* The evaluator: one iteration of the do-while loop of eval_expr.             *)
(* k tells how the iteration ends: "continue" (the next iteration follows),    *)
(* "return" (eval_expr returns err), "fall" (control reaches the code after    *)
(* the dispatch) and "call" (a builtin has entered apply's body loop).         *)

Return(s, e) == [s EXCEPT !.err = e, !.k = "return"]

\* stack = make_frame(stack, env, tail); list_set(stack, 2, op); list_set(stack, 4, args);
\* expr = next; continue
Push(s, tail, op, args, next) ==
    Bind(make_frame(s, s.stack, s.env, tail), LAMBDA s1 :
    Bind(IF nilp(op) THEN s1 ELSE list_set(s1, s1.ret, F_OP, op), LAMBDA s2 :
    Bind(IF nilp(args) THEN s2 ELSE list_set(s2, s1.ret, F_ARGS, args), LAMBDA s3 :
         [s3 EXCEPT !.stack = s1.ret, !.expr = next, !.k = "continue",
                    !.hist.sites = (s1.ret.v :> s.env) @@ @,
                    !.hist.frames = (s1.ret.v :> [form |-> s.expr, exprs |-> <<next>>,
                                                  vals |-> <<>>]) @@ @])))

EvalQuote(s, args) ==
    IF nilp(args) \/ ~nilp(cdr(s, args)) THEN Return(s, Error_Args)
    ELSE [s EXCEPT !.result = car(s, args), !.k = "fall"]

EvalDefine(s, op, args) ==
    LET sym == car(s, args)
        nm  == car(s, sym)
    IN IF nilp(args) \/ nilp(cdr(s, args)) THEN Return(s, Error_Args)
       ELSE IF sym.type = "Pair" THEN
            Bind(make_closure([s EXCEPT !.ret = s.result], s.env, cdr(s, sym), cdr(s, args)),
                 LAMBDA s1 :
                 IF nm.type # "Symbol" THEN Return([s1 EXCEPT !.result = s1.ret], Error_Type)
                 ELSE [env_set(s1, s.env, nm, s1.ret) EXCEPT
                          !.err = s1.rerr, !.result = nm, !.k = "fall"])
       ELSE IF sym.type = "Symbol" THEN
            IF ~nilp(cdr(s, cdr(s, args))) THEN Return(s, Error_Args)
            ELSE Push(s, Nil, op, sym, car(s, cdr(s, args)))
       ELSE Return(s, Error_Type)

EvalLambda(s, args) ==
    IF nilp(args) \/ nilp(cdr(s, args)) THEN Return(s, Error_Args)
    ELSE Bind(make_closure([s EXCEPT !.ret = s.result], s.env, car(s, args), cdr(s, args)),
              LAMBDA s1 : [s1 EXCEPT !.err = s1.rerr, !.result = s1.ret, !.k = "fall"])

\* a variant of EvalIf that accepts more than three arguments
EvalIf_lax(s, op, args) ==
    IF nilp(args) \/ nilp(cdr(s, args)) \/ nilp(cdr(s, cdr(s, args)))
    THEN Return(s, Error_Args)
    ELSE Push(s, cdr(s, args), op, Nil, car(s, args))

EvalIf(s, op, args) ==
    IF nilp(args) \/ nilp(cdr(s, args)) \/ nilp(cdr(s, cdr(s, args)))
       \/ ~nilp(cdr(s, cdr(s, cdr(s, args))))
    THEN Return(s, Error_Args)
    ELSE Push(s, cdr(s, args), op, Nil, car(s, args))

EvalDefmacro(s, args) ==
    LET name == car(s, car(s, args))
    IN IF nilp(args) \/ nilp(cdr(s, args)) THEN Return(s, Error_Args)
       ELSE IF car(s, args).type # "Pair" THEN Return(s, Error_Syntax)
       ELSE IF name.type # "Symbol" THEN Return(s, Error_Type)
       ELSE Bind(make_closure(s, s.env, cdr(s, car(s, args)), cdr(s, args)), LAMBDA s1 :
                 IF s1.rerr # Error_OK THEN [s1 EXCEPT !.err = s1.rerr, !.k = "fall"]
                 ELSE [env_set(s1, s.env, name, Retag(s1.ret, "Macro")) EXCEPT
                          !.err = Error_OK, !.result = name, !.k = "fall"])

EvalApply(s, op, args) ==
    IF ~Arity2(s, args) THEN Return(s, Error_Args)
    ELSE Push(s, cdr(s, args), op, Nil, car(s, args))

\* err = (*op.value.builtin)(args, result)
EvalBuiltin(s, op, args) ==
    Bind(CallBuiltin([s EXCEPT !.calling = FALSE], op, args), LAMBDA s1 :
         [s1 EXCEPT !.k = IF s1.calling /\ ~nilp(s1.callbody) THEN "call" ELSE "fall"])

\* a variant of EvalDispatch that takes a symbol for a special form only when
\* the environment does not bind it
EvalDispatch_bound(s) ==
    LET op   == car(s, s.expr)
        args == cdr(s, s.expr)
        r    == env_get(s, s.env, s.expr)
        free == env_get(s, s.env, op).err # Error_OK
    IN IF s.expr.type = "Symbol"
       THEN [s EXCEPT !.err = r.err, !.result = IF r.err = Error_OK THEN r.val ELSE @,
                      !.k = "fall"]
       ELSE IF s.expr.type # "Pair" THEN [s EXCEPT !.result = s.expr, !.k = "fall"]
       ELSE IF ~listp(s, s.expr) THEN Return(s, Error_Syntax)
       ELSE IF op.type = "Symbol" /\ free THEN
            IF op.v = sym_quote(s).v THEN EvalQuote(s, args)
            ELSE IF op.v = sym_define(s).v THEN EvalDefine(s, op, args)
            ELSE IF op.v = sym_lambda(s).v THEN EvalLambda(s, args)
            ELSE IF op.v = sym_if(s).v THEN EvalIf(s, op, args)
            ELSE IF op.v = sym_defmacro(s).v THEN EvalDefmacro(s, args)
            ELSE IF op.v = sym_apply(s).v THEN EvalApply(s, op, args)
            ELSE Push(s, args, Nil, Nil, op)
       ELSE IF op.type = "Builtin" THEN EvalBuiltin(s, op, args)
       ELSE Push(s, args, Nil, Nil, op)

\* the if/else chain of the loop body, up to "if (nilp(stack))"
EvalDispatch(s) ==
    LET op   == car(s, s.expr)
        args == cdr(s, s.expr)
        r    == env_get(s, s.env, s.expr)
    IN IF s.expr.type = "Symbol"
       THEN [s EXCEPT !.err = r.err, !.result = IF r.err = Error_OK THEN r.val ELSE @,
                      !.k = "fall"]
       ELSE IF s.expr.type # "Pair" THEN [s EXCEPT !.result = s.expr, !.k = "fall"]
       ELSE IF ~listp(s, s.expr) THEN Return(s, Error_Syntax)
       ELSE IF op.type = "Symbol" THEN
            \* handle special forms
            IF op.v = sym_quote(s).v THEN EvalQuote(s, args)
            ELSE IF op.v = sym_define(s).v THEN EvalDefine(s, op, args)
            ELSE IF op.v = sym_lambda(s).v THEN EvalLambda(s, args)
            ELSE IF op.v = sym_if(s).v THEN EvalIf(s, op, args)
            ELSE IF op.v = sym_defmacro(s).v THEN EvalDefmacro(s, args)
            ELSE IF op.v = sym_apply(s).v THEN EvalApply(s, op, args)
            ELSE Push(s, args, Nil, Nil, op)
       ELSE IF op.type = "Builtin" THEN EvalBuiltin(s, op, args)
       ELSE Push(s, args, Nil, Nil, op)      \* handle function application

\* from "if (nilp(stack)) break;" to the loop condition
EvalTail(s) ==
    IF nilp(s.stack) \/ s.err # Error_OK THEN [s EXCEPT !.k = "return"]
    ELSE Bind(eval_do_return(s), LAMBDA s1 :
              [s1 EXCEPT !.err = s1.rerr,
                         !.k = IF s1.rerr = Error_OK THEN "continue" ELSE "return"])

\* the collection at the top of the loop
GcEvery == 100000

EvalCollect(s) ==
    IF s.count + 1 > GcEvery
    THEN [gc(gc_mark(gc_mark(gc_mark(s, s.expr), s.env), s.stack)) EXCEPT
             !.count = 0, !.hist.gcs = @ + 1]
    ELSE [s EXCEPT !.count = @ + 1]

\* one whole iteration
EvalIteration(s) ==
    Bind(EvalCollect(s), LAMBDA s1 :
    Bind(EvalDispatch([s1 EXCEPT !.hist.evals =
             IF s1.expr.type = "Pair"
             THEN (s1.expr.v :> (IF s1.expr.v \in DOMAIN @ THEN @[s1.expr.v] + 1 ELSE 1)) @@ @
             ELSE @]), LAMBDA s2 :
         IF s2.k = "fall" THEN EvalTail(s2) ELSE s2))

-----------------------------------------------------------------------------
(* The printer *)

RECURSIVE DecChars(_)
\* the decimal digits of n >= 0
DecChars(n) == IF n < 10 THEN <<Digits[n + 1]>> ELSE DecChars(n \div 10) \o <<Digits[(n % 10) + 1]>>

\* a variant of IntChars that leaves the sign out
IntChars_abs(n) == IF n < 0 THEN DecChars(0 - n) ELSE DecChars(n)

\* printf("%ld", n)
IntChars(n) == IF n < 0 THEN <<"-">> \o DecChars(0 - n) ELSE DecChars(n)

RECURSIVE print_expr(_, _)
RECURSIVE print_tail(_, _)

\* the while loop of print_expr over the rest of a list
print_tail(s, atom) ==
    IF nilp(atom) THEN <<>>
    ELSE IF atom.type = "Pair" /\ Live(s, atom)
    THEN <<" ">> \o print_expr(s, car(s, atom)) \o print_tail(s, cdr(s, atom))
    ELSE <<" ", ".", " ">> \o print_expr(s, atom)

\* the characters print_expr writes.  A read of invalid memory shows as the
\* pseudo-character "Freed" or "Wild".
print_expr(s, atom) ==
    CASE atom.type = "Nil"     -> STR_nil
      [] Poison(atom)          -> <<atom.type>>
      [] atom.type \in HeapTypes /\ ~Live(s, atom) -> <<"Freed">>
      [] atom.type = "Pair"    -> <<"(">> \o print_expr(s, car(s, atom))
                                     \o print_tail(s, cdr(s, atom)) \o <<")">>
      [] atom.type = "Symbol"  -> s.names[atom.v]
      [] atom.type = "Integer" -> IntChars(atom.v)
      [] atom.type = "Builtin" -> <<"#", "<", "B", "U", "I", "L", "T", "I", "N", ":">>
                                     \o IntChars(atom.v) \o <<">">>
      [] atom.type = "Closure" -> print_expr(s, cdr(s, atom))
      [] OTHER                 -> <<"u", "n", "k", "n", "o", "w", "n", " ", "t", "y", "p", "e">>

\* the invalid access a print made, "none" when it made none
PrintFault(txt) ==
    IF \E i \in DOMAIN txt : txt[i] = "Freed" THEN "freed"
    ELSE IF \E i \in DOMAIN txt : txt[i] = "Wild" THEN "wild"
    ELSE IF \E i \in DOMAIN txt : txt[i] = "Uninit" THEN "uninit"
    ELSE "none"

\* the message the drivers print for an Error
ErrorTag(e) ==
    CASE e = Error_Syntax  -> "Syntax error"
      [] e = Error_Unbound -> "Symbol not bound"
      [] e = Error_Args    -> "Wrong number of arguments"
      [] e = Error_Type    -> "Wrong type"

-----------------------------------------------------------------------------
(* The interpreter state as one record, and main's set-up *)

Hist0 == [name |-> "", count0 |-> 0, envs |-> {}, setenv |-> {}, entered |-> 0,
          depths |-> <<>>, badop |-> FALSE, evals |-> <<>>, gcs |-> 0, forms |-> 0, skipped |-> 0, lines |-> 0,
          lastset |-> [env |-> Nil, sym |-> Nil, val |-> Nil], lineforms |-> 0,
          call |-> [op |-> Nil, args |-> Nil, env |-> Nil, brk |-> 0], arg |-> 0,
          macro |-> [op |-> Nil, args |-> Nil, frame |-> Nil], expanded |-> 0,
          mcalls |-> 0, mexps |-> 0, sites |-> <<>>, frames |-> <<>>,
          applied |-> [frame |-> Nil, op |-> Nil, args |-> Nil, first |-> FALSE],
          closed |-> <<>>, framecells |-> {}, acccells |-> {}, touched |-> {}]

\* the record the operators above work on, from the variables
Machine ==
    [mem |-> mem, global_allocations |-> global_allocations, brk |-> brk,
     sym_table |-> sym_table, names |-> names, fault |-> fault, count |-> count,
     expr |-> expr, env |-> env, stack |-> stack, result |-> result, err |-> err,
     hist |-> [hist EXCEPT !.setenv = {}, !.entered = 0, !.lastset = Hist0.lastset,
                           !.call = Hist0.call, !.macro = Hist0.macro,
                           !.expanded = 0, !.applied = Hist0.applied],
     ret |-> Nil, rerr |-> Error_OK, rend |-> 0,
     k |-> "", calling |-> FALSE, callenv |-> Nil, callbody |-> Nil]

\* before main runs: no allocation, an empty symbol table
Blank ==
    [mem |-> <<>>, global_allocations |-> <<>>, brk |-> 1,
     sym_table |-> Nil, names |-> <<>>, fault |-> "none", count |-> 0,
     expr |-> Nil, env |-> Nil, stack |-> Nil, result |-> Nil, err |-> Error_OK,
     hist |-> Hist0, ret |-> Nil, rerr |-> Error_OK, rend |-> 0,
     k |-> "", calling |-> FALSE, callenv |-> Nil, callbody |-> Nil]

\* the symbols main interns first, in order
StartupSyms == <<STR_t, STR_quote, STR_define, STR_lambda, STR_if, STR_defmacro, STR_apply>>

\* the bindings main installs, in order: the name and the builtin ("" binds t to itself)
StartupEnv ==
    <<[n |-> <<"c", "a", "r">>,      f |-> "car"],
      [n |-> <<"c", "d", "r">>,      f |-> "cdr"],
      [n |-> <<"c", "o", "n", "s">>, f |-> "cons"],
      [n |-> <<"+">>,                f |-> "add"],
      [n |-> <<"-">>,                f |-> "subtract"],
      [n |-> <<"*">>,                f |-> "multiply"],
      [n |-> <<"/">>,                f |-> "divide"],
      [n |-> STR_t,                  f |-> ""],
      [n |-> <<"=">>,                f |-> "numeq"],
      [n |-> <<"<">>,                f |-> "less"],
      [n |-> STR_apply,              f |-> "apply"],
      [n |-> <<"e", "q", "?">>,      f |-> "eq"],
      [n |-> <<"p", "a", "i", "r", "?">>, f |-> "pairp"]>>

RECURSIVE InternAll(_, _, _)
InternAll(s, strs, i) ==
    IF i > Len(strs) THEN s
    ELSE Bind(make_sym(s, strs[i]), LAMBDA s1 : InternAll(s1, strs, i + 1))

\* env_set(env, make_sym(n), make_builtin(f)), or env_set(env, sym_t, sym_t)
Install(s, e, entry) ==
    Bind(make_sym(s, entry.n), LAMBDA s1 :
         env_set(s1, e, s1.ret,
                 IF entry.f = "" THEN s1.ret ELSE make_builtin(FnPtr(entry.f))))

RECURSIVE InstallAll(_, _, _)
InstallAll(s, e, i) ==
    IF i > Len(StartupEnv) THEN s
    ELSE Bind(Install(s, e, StartupEnv[i]), LAMBDA s1 : InstallAll(s1, e, i + 1))

\* main up to the call of load_file; main's env is left in ret
Startup ==
    Bind(env_create(Blank, Nil), LAMBDA s1 :
    Bind(InstallAll(InternAll(s1, StartupSyms, 1), s1.ret, 1), LAMBDA s2 :
         [s2 EXCEPT !.ret = s1.ret, !.hist.setenv = {}, !.hist.lastset = Hist0.lastset]))

-----------------------------------------------------------------------------
(* Sessions: the contents of library.lisp (empty when there is none) and the   *)
(* lines typed at the prompt, each as fgets returns it.                        *)

\* two forms on one prompt line
\*   > (+ 1 2) (+ 3 4)
S_two ==
    [name |-> "two",
     lib |-> <<>>,
     lines |-> <<<<"(", "+", " ", "1", " ", "2", ")", " ", "(", "+", " ", "3", " ", "4",
                  ")", "\n">>>>]

\* the builtin apply reached under another name: apply() runs the closure's body
\* with nested eval_expr calls while the outer eval_expr holds a frame
\*   > (define ap apply)
\*   > (+ 1 (ap (lambda (x) x (+ x 1)) (quote (1))))
S_nested ==
    [name |-> "nested",
     lib |-> <<>>,
     lines |-> <<<<"(", "d", "e", "f", "i", "n", "e", " ", "a", "p", " ", "a", "p", "p",
                  "l", "y", ")", "\n">>,
                <<"(", "+", " ", "1", " ", "(", "a", "p", " ", "(", "l", "a", "m", "b",
                  "d", "a", " ", "(", "x", ")", " ", "x", " ", "(", "+", " ", "x", " ",
                  "1", ")", ")", " ", "(", "q", "u", "o", "t", "e", " ", "(", "1", ")",
                  ")", ")", ")", "\n">>>>]

\* the macro scenario of the specification
\*   > (defmacro (unless c . body) (cons (quote if) (cons c (cons nil body)))) (unless nil 1 2)
S_unless ==
    [name |-> "unless",
     lib |-> <<>>,
     lines |-> <<<<"(", "d", "e", "f", "m", "a", "c", "r", "o", " ", "(", "u", "n", "l",
                  "e", "s", "s", " ", "c", " ", ".", " ", "b", "o", "d", "y", ")", " ",
                  "(", "c", "o", "n", "s", " ", "(", "q", "u", "o", "t", "e", " ", "i",
                  "f", ")", " ", "(", "c", "o", "n", "s", " ", "c", " ", "(", "c", "o",
                  "n", "s", " ", "n", "i", "l", " ", "b", "o", "d", "y", ")", ")", ")",
                  ")", " ", "(", "u", "n", "l", "e", "s", "s", " ", "n", "i", "l", " ",
                  "1", " ", "2", ")", "\n">>>>]

\* the same macro used with one body form
\*   > (defmacro (unless c . body) (cons (quote if) (cons c (cons nil body))))
\*   > (unless nil 1)
\*   > (unless 1 2)
S_unless1 ==
    [name |-> "unless1",
     lib |-> <<>>,
     lines |-> <<<<"(", "d", "e", "f", "m", "a", "c", "r", "o", " ", "(", "u", "n", "l",
                  "e", "s", "s", " ", "c", " ", ".", " ", "b", "o", "d", "y", ")", " ",
                  "(", "c", "o", "n", "s", " ", "(", "q", "u", "o", "t", "e", " ", "i",
                  "f", ")", " ", "(", "c", "o", "n", "s", " ", "c", " ", "(", "c", "o",
                  "n", "s", " ", "n", "i", "l", " ", "b", "o", "d", "y", ")", ")", ")",
                  ")", "\n">>,
                <<"(", "u", "n", "l", "e", "s", "s", " ", "n", "i", "l", " ", "1", ")",
                  "\n">>,
                <<"(", "u", "n", "l", "e", "s", "s", " ", "1", " ", "2", ")", "\n">>>>]

\* a call whose operator expression evaluates to nil
\*   > (nil car (quote (1 2)))
S_nilop ==
    [name |-> "nilop",
     lib |-> <<>>,
     lines |-> <<<<"(", "n", "i", "l", " ", "c", "a", "r", " ", "(", "q", "u", "o", "t",
                  "e", " ", "(", "1", " ", "2", ")", ")", ")", "\n">>>>]

\* calls whose operator expression evaluates to the symbol of a special form
\*   > ((quote if) 1 2 3)
\*   > ((quote define) 1)
\*   > ((quote apply) car (quote ((1 2))))
S_symop ==
    [name |-> "symop",
     lib |-> <<>>,
     lines |-> <<<<"(", "(", "q", "u", "o", "t", "e", " ", "i", "f", ")", " ", "1", " ",
                  "2", " ", "3", ")", "\n">>,
                <<"(", "(", "q", "u", "o", "t", "e", " ", "d", "e", "f", "i", "n", "e",
                  ")", " ", "1", ")", "\n">>,
                <<"(", "(", "q", "u", "o", "t", "e", " ", "a", "p", "p", "l", "y", ")",
                  " ", "c", "a", "r", " ", "(", "q", "u", "o", "t", "e", " ", "(", "(",
                  "1", " ", "2", ")", ")", ")", ")", "\n">>>>]

\* calls whose operator is an integer, a plain symbol, a pair, and nil
\*   > (1 2)
\*   > ((quote foo) 1)
\*   > ((cons 1 2) 3)
\*   > (nil)
\*   > (nil 1 2)
S_badop ==
    [name |-> "badop",
     lib |-> <<>>,
     lines |-> <<<<"(", "1", " ", "2", ")", "\n">>,
                <<"(", "(", "q", "u", "o", "t", "e", " ", "f", "o", "o", ")", " ", "1",
                  ")", "\n">>,
                <<"(", "(", "c", "o", "n", "s", " ", "1", " ", "2", ")", " ", "3", ")",
                  "\n">>,
                <<"(", "n", "i", "l", ")", "\n">>,
                <<"(", "n", "i", "l", " ", "1", " ", "2", ")", "\n">>>>]

\* forms that fail, followed by forms that do not, in the file and at the prompt
\*   library.lisp: (car 1) (+ 1 2) foo
\*   > (car 1) (+ 1 2)
\*   > (+ 2 2)
\*   > foo (+ 1) 7
\*   > (1
S_errors ==
    [name |-> "errors",
     lib |-> <<"(", "c", "a", "r", " ", "1", ")", " ", "(", "+", " ", "1", " ", "2",
               ")", " ", "f", "o", "o">>,
     lines |-> <<<<"(", "c", "a", "r", " ", "1", ")", " ", "(", "+", " ", "1", " ", "2",
                  ")", "\n">>,
                <<"(", "+", " ", "2", " ", "2", ")", "\n">>,
                <<"f", "o", "o", " ", "(", "+", " ", "1", ")", " ", "7", "\n">>,
                <<"(", "1", "\n">>>>]

\* the redefinition scenario of the specification
\*   > (define x 10) (define (f) x) (define x 20) (f)
S_redefine ==
    [name |-> "redefine",
     lib |-> <<>>,
     lines |-> <<<<"(", "d", "e", "f", "i", "n", "e", " ", "x", " ", "1", "0", ")", " ",
                  "(", "d", "e", "f", "i", "n", "e", " ", "(", "f", ")", " ", "x", ")",
                  " ", "(", "d", "e", "f", "i", "n", "e", " ", "x", " ", "2", "0", ")",
                  " ", "(", "f", ")", "\n">>>>]

\* define inside a procedure body, with the same name bound in the root environment
\*   > (define x 1) (define (g) (define x 2) (define y 3) x) (g) x
\*   > (define (h x x) (define x 5) x) (h 1 2)
\*   > y
S_shadow ==
    [name |-> "shadow",
     lib |-> <<>>,
     lines |-> <<<<"(", "d", "e", "f", "i", "n", "e", " ", "x", " ", "1", ")", " ", "(",
                  "d", "e", "f", "i", "n", "e", " ", "(", "g", ")", " ", "(", "d", "e",
                  "f", "i", "n", "e", " ", "x", " ", "2", ")", " ", "(", "d", "e", "f",
                  "i", "n", "e", " ", "y", " ", "3", ")", " ", "x", ")", " ", "(", "g",
                  ")", " ", "x", "\n">>,
                <<"(", "d", "e", "f", "i", "n", "e", " ", "(", "h", " ", "x", " ", "x",
                  ")", " ", "(", "d", "e", "f", "i", "n", "e", " ", "x", " ", "5", ")",
                  " ", "x", ")", " ", "(", "h", " ", "1", " ", "2", ")", "\n">>,
                <<"y", "\n">>>>]

\* an if whose test and branches leave a trace in the environment; the test is not nil
\*   > (define c 0) (if (define c (+ c 1)) (define a 1) (define b 2)) c a b
S_ifthen ==
    [name |-> "ifthen",
     lib |-> <<>>,
     lines |-> <<<<"(", "d", "e", "f", "i", "n", "e", " ", "c", " ", "0", ")", " ", "(",
                  "i", "f", " ", "(", "d", "e", "f", "i", "n", "e", " ", "c", " ", "(",
                  "+", " ", "c", " ", "1", ")", ")", " ", "(", "d", "e", "f", "i", "n",
                  "e", " ", "a", " ", "1", ")", " ", "(", "d", "e", "f", "i", "n", "e",
                  " ", "b", " ", "2", ")", ")", " ", "c", " ", "a", " ", "b", "\n">>>>]

\* the same with a test that is nil
\*   > (define c 0) (if (car (cons nil (define c (+ c 1)))) (define a 1) (define b 2)) c b a
S_ifelse ==
    [name |-> "ifelse",
     lib |-> <<>>,
     lines |-> <<<<"(", "d", "e", "f", "i", "n", "e", " ", "c", " ", "0", ")", " ", "(",
                  "i", "f", " ", "(", "c", "a", "r", " ", "(", "c", "o", "n", "s", " ",
                  "n", "i", "l", " ", "(", "d", "e", "f", "i", "n", "e", " ", "c", " ",
                  "(", "+", " ", "c", " ", "1", ")", ")", ")", ")", " ", "(", "d", "e",
                  "f", "i", "n", "e", " ", "a", " ", "1", ")", " ", "(", "d", "e", "f",
                  "i", "n", "e", " ", "b", " ", "2", ")", ")", " ", "c", " ", "b", " ",
                  "a", "\n">>>>]


\* the largest argument the loops below are called with
MaxIter == 3

\* a procedure that calls itself as the chosen branch of the if that is its body
\*   > (define (loop n) (if (= n 0) 0 (loop (- n 1))))
\*   > (loop n)
S_loop(n) ==
    [name |-> "loop",
     lib |-> <<>>,
     lines |-> <<<<"(", "d", "e", "f", "i", "n", "e", " ", "(", "l", "o", "o", "p", " ",
                  "n", ")", " ", "(", "i", "f", " ", "(", "=", " ", "n", " ", "0", ")",
                  " ", "0", " ", "(", "l", "o", "o", "p", " ", "(", "-", " ", "n", " ",
                  "1", ")", ")", ")", ")", "\n">>,
                <<"(", "l", "o", "o", "p", " ">> \o IntChars(n) \o <<")", "\n">>>>]

\* the same with a body of two forms, called as an argument of another call
\*   > (define (loop2 n) (+ n 0) (if (= n 0) (quote done) (loop2 (- n 1))))
\*   > (cons 1 (loop2 n))
S_loop2(n) ==
    [name |-> "loop2",
     lib |-> <<>>,
     lines |-> <<<<"(", "d", "e", "f", "i", "n", "e", " ", "(", "l", "o", "o", "p", "2",
                  " ", "n", ")", " ", "(", "+", " ", "n", " ", "0", ")", " ", "(", "i",
                  "f", " ", "(", "=", " ", "n", " ", "0", ")", " ", "(", "q", "u", "o",
                  "t", "e", " ", "d", "o", "n", "e", ")", " ", "(", "l", "o", "o", "p",
                  "2", " ", "(", "-", " ", "n", " ", "1", ")", ")", ")", ")", "\n">>,
                <<"(", "c", "o", "n", "s", " ", "1", " ", "(", "l", "o", "o", "p", "2", " ">>
                  \o IntChars(n) \o <<")", ")", "\n">>>>]

Sessions ==
    {S_two, S_nested, S_unless, S_unless1, S_nilop, S_symop, S_badop, S_errors,
     S_redefine, S_shadow, S_ifthen, S_ifelse}
    \cup {S_loop(n) : n \in 0..MaxIter} \cup {S_loop2(n) : n \in 0..MaxIter}

\* closures called with as many, fewer and more arguments than parameters, with
\* and without a rest parameter
\*   > ((lambda (x . rest) rest) 1 2 3)
\*   > ((lambda (x . rest) rest) 1)
\*   > ((lambda args args) 1 2)
\*   > ((lambda (x y) (cons y x)) 1 2)
\*   > ((lambda (x y) x) 1)
\*   > ((lambda (x y) x) 1 2 3)
\*   > ((lambda (x . r) x))
S_params ==
    [name |-> "params",
     lib |-> <<>>,
     lines |-> <<<<"(", "(", "l", "a", "m", "b", "d", "a", " ", "(", "x", " ", ".", " ",
                  "r", "e", "s", "t", ")", " ", "r", "e", "s", "t", ")", " ", "1", " ",
                  "2", " ", "3", ")", "\n">>,
                <<"(", "(", "l", "a", "m", "b", "d", "a", " ", "(", "x", " ", ".", " ",
                  "r", "e", "s", "t", ")", " ", "r", "e", "s", "t", ")", " ", "1", ")",
                  "\n">>,
                <<"(", "(", "l", "a", "m", "b", "d", "a", " ", "a", "r", "g", "s", " ",
                  "a", "r", "g", "s", ")", " ", "1", " ", "2", ")", "\n">>,
                <<"(", "(", "l", "a", "m", "b", "d", "a", " ", "(", "x", " ", "y", ")",
                  " ", "(", "c", "o", "n", "s", " ", "y", " ", "x", ")", ")", " ", "1",
                  " ", "2", ")", "\n">>,
                <<"(", "(", "l", "a", "m", "b", "d", "a", " ", "(", "x", " ", "y", ")",
                  " ", "x", ")", " ", "1", ")", "\n">>,
                <<"(", "(", "l", "a", "m", "b", "d", "a", " ", "(", "x", " ", "y", ")",
                  " ", "x", ")", " ", "1", " ", "2", " ", "3", ")", "\n">>,
                <<"(", "(", "l", "a", "m", "b", "d", "a", " ", "(", "x", " ", ".", " ",
                  "r", ")", " ", "x", ")", ")", "\n">>>>]

\* values of every variant but builtin, printed: data (with a negative integer, nil inside
\* a list, an improper list, quote forms and symbols that hold a dot), a closure, a macro,
\* and lists that hold the symbol whose name is a single dot
\*   > (quote (a (b . -12) nil (quote c) 'e . d))
\*   > (- 1 3)
\*   > (quote ())
\*   > (cons 'a.b (cons '.. '+))
\*   > (lambda (x) (cons x x))
\*   > (defmacro (m x) x)
\*   > m
\*   > (cons '. nil)
\*   > (cons 1 (cons '. (cons 2 nil)))
S_print ==
    [name |-> "print",
     lib |-> <<>>,
     lines |-> <<<<"(", "q", "u", "o", "t", "e", " ", "(", "a", " ", "(", "b", " ", ".",
                  " ", "-", "1", "2", ")", " ", "n", "i", "l", " ", "(", "q", "u", "o",
                  "t", "e", " ", "c", ")", " ", "'", "e", " ", ".", " ", "d", ")", ")",
                  "\n">>,
                <<"(", "-", " ", "1", " ", "3", ")", "\n">>,
                <<"(", "q", "u", "o", "t", "e", " ", "(", ")", ")", "\n">>,
                <<"(", "c", "o", "n", "s", " ", "'", "a", ".", "b", " ", "(", "c", "o",
                  "n", "s", " ", "'", ".", ".", " ", "'", "+", ")", ")", "\n">>,
                <<"(", "l", "a", "m", "b", "d", "a", " ", "(", "x", ")", " ", "(", "c",
                  "o", "n", "s", " ", "x", " ", "x", ")", ")", "\n">>,
                <<"(", "d", "e", "f", "m", "a", "c", "r", "o", " ", "(", "m", " ", "x",
                  ")", " ", "x", ")", "\n">>,
                <<"m", "\n">>,
                <<"(", "c", "o", "n", "s", " ", "'", ".", " ", "n", "i", "l", ")",
                  "\n">>,
                <<"(", "c", "o", "n", "s", " ", "1", " ", "(", "c", "o", "n", "s", " ",
                  "'", ".", " ", "(", "c", "o", "n", "s", " ", "2", " ", "n", "i", "l",
                  ")", ")", ")", "\n">>>>]

\* the largest argument of the recursions below
MaxFact == 5

\* non-tail recursion: the factorial of the specification, and a sum that reads its
\* parameter after the nested call has returned
\*   > (define (fact n) (if (= n 0) 1 (* n (fact (- n 1)))))
\*   > (define (tri n) (if (= n 0) 0 (+ (tri (- n 1)) n)))
\*   > (fact n)
\*   > (tri n)
S_fact(n) ==
    [name |-> "fact", n |-> n,
     lib |-> <<>>,
     lines |-> <<<<"(", "d", "e", "f", "i", "n", "e", " ", "(", "f", "a", "c", "t", " ",
                  "n", ")", " ", "(", "i", "f", " ", "(", "=", " ", "n", " ", "0", ")",
                  " ", "1", " ", "(", "*", " ", "n", " ", "(", "f", "a", "c", "t", " ",
                  "(", "-", " ", "n", " ", "1", ")", ")", ")", ")", ")", "\n">>,
                <<"(", "d", "e", "f", "i", "n", "e", " ", "(", "t", "r", "i", " ", "n",
                  ")", " ", "(", "i", "f", " ", "(", "=", " ", "n", " ", "0", ")", " ",
                  "0", " ", "(", "+", " ", "(", "t", "r", "i", " ", "(", "-", " ", "n",
                  " ", "1", ")", ")", " ", "n", ")", ")", ")", "\n">>,
                <<"(", "f", "a", "c", "t", " ">> \o IntChars(n) \o <<")", "\n">>,
                <<"(", "t", "r", "i", " ">> \o IntChars(n) \o <<")", "\n">>>>]

\* macros whose use tells an argument evaluated from one left alone, the environment
\* of the call from the one the macro was made in, and one evaluation of the
\* expansion from two
\*   > (defmacro (second a b) b)
\*   > (second (car 1) (+ 1 2))
\*   > (define (f y) (second (car 1) (+ y 1)))
\*   > (f 10)
\*   > (define z 1)
\*   > (defmacro (mz) z)
\*   > (define (g z) (mz))
\*   > (g 5)
\*   > (define n 0)
\*   > (defmacro (inc) (quote (define n (+ n 1))))
\*   > (inc)
\*   > n
\*   > (second 1 (second 2 n))
S_macro ==
    [name |-> "macro",
     lib |-> <<>>,
     lines |-> <<<<"(", "d", "e", "f", "m", "a", "c", "r", "o", " ", "(", "s", "e", "c",
                  "o", "n", "d", " ", "a", " ", "b", ")", " ", "b", ")", "\n">>,
                <<"(", "s", "e", "c", "o", "n", "d", " ", "(", "c", "a", "r", " ", "1",
                  ")", " ", "(", "+", " ", "1", " ", "2", ")", ")", "\n">>,
                <<"(", "d", "e", "f", "i", "n", "e", " ", "(", "f", " ", "y", ")", " ",
                  "(", "s", "e", "c", "o", "n", "d", " ", "(", "c", "a", "r", " ", "1",
                  ")", " ", "(", "+", " ", "y", " ", "1", ")", ")", ")", "\n">>,
                <<"(", "f", " ", "1", "0", ")", "\n">>,
                <<"(", "d", "e", "f", "i", "n", "e", " ", "z", " ", "1", ")", "\n">>,
                <<"(", "d", "e", "f", "m", "a", "c", "r", "o", " ", "(", "m", "z", ")",
                  " ", "z", ")", "\n">>,
                <<"(", "d", "e", "f", "i", "n", "e", " ", "(", "g", " ", "z", ")", " ",
                  "(", "m", "z", ")", ")", "\n">>,
                <<"(", "g", " ", "5", ")", "\n">>,
                <<"(", "d", "e", "f", "i", "n", "e", " ", "n", " ", "0", ")", "\n">>,
                <<"(", "d", "e", "f", "m", "a", "c", "r", "o", " ", "(", "i", "n", "c",
                  ")", " ", "(", "q", "u", "o", "t", "e", " ", "(", "d", "e", "f", "i",
                  "n", "e", " ", "n", " ", "(", "+", " ", "n", " ", "1", ")", ")", ")",
                  ")", "\n">>,
                <<"(", "i", "n", "c", ")", "\n">>,
                <<"n", "\n">>,
                <<"(", "s", "e", "c", "o", "n", "d", " ", "1", " ", "(", "s", "e", "c",
                  "o", "n", "d", " ", "2", " ", "n", ")", ")", "\n">>>>]

\* calls whose result tells the order of the arguments, and arguments that are
\* themselves forms when evaluated
\*   > (define (f a b c) (cons a (cons b (cons c nil))))
\*   > (f (+ 1 0) (+ 1 1) (+ 1 2))
\*   > (- 10 (+ 1 2))
\*   > (car (quote ((+ 1 2))))
\*   > ((lambda (x) x) (quote (car 1)))
\*   > (f (quote (- 1)) (cons 1 2) (f 1 2 3))
S_order ==
    [name |-> "order",
     lib |-> <<>>,
     lines |-> <<<<"(", "d", "e", "f", "i", "n", "e", " ", "(", "f", " ", "a", " ", "b",
                  " ", "c", ")", " ", "(", "c", "o", "n", "s", " ", "a", " ", "(", "c",
                  "o", "n", "s", " ", "b", " ", "(", "c", "o", "n", "s", " ", "c", " ",
                  "n", "i", "l", ")", ")", ")", ")", "\n">>,
                <<"(", "f", " ", "(", "+", " ", "1", " ", "0", ")", " ", "(", "+", " ",
                  "1", " ", "1", ")", " ", "(", "+", " ", "1", " ", "2", ")", ")",
                  "\n">>,
                <<"(", "-", " ", "1", "0", " ", "(", "+", " ", "1", " ", "2", ")", ")",
                  "\n">>,
                <<"(", "c", "a", "r", " ", "(", "q", "u", "o", "t", "e", " ", "(", "(",
                  "+", " ", "1", " ", "2", ")", ")", ")", ")", "\n">>,
                <<"(", "(", "l", "a", "m", "b", "d", "a", " ", "(", "x", ")", " ", "x",
                  ")", " ", "(", "q", "u", "o", "t", "e", " ", "(", "c", "a", "r", " ",
                  "1", ")", ")", ")", "\n">>,
                <<"(", "f", " ", "(", "q", "u", "o", "t", "e", " ", "(", "-", " ", "1",
                  ")", ")", " ", "(", "c", "o", "n", "s", " ", "1", " ", "2", ")", " ",
                  "(", "f", " ", "1", " ", "2", " ", "3", ")", ")", "\n">>>>]

\* a define whose parameter list holds a number, after a form of the same line
\* that has left 3 in the result; the same for a name that is bound; the same
\* for defmacro
\*   > (+ 1 2) (define (f 1) 1)
\*   > f
\*   > (define (g) 7) (define (g 1) 2)
\*   > g
\*   > (+ 1 2) (defmacro (h 1) 1)
\*   > h
S_baddef ==
    [name |-> "baddef",
     lib |-> <<>>,
     lines |-> <<<<"(", "+", " ", "1", " ", "2", ")", " ", "(", "d", "e", "f", "i", "n",
                  "e", " ", "(", "f", " ", "1", ")", " ", "1", ")", "\n">>,
                <<"f", "\n">>,
                <<"(", "d", "e", "f", "i", "n", "e", " ", "(", "g", ")", " ", "7", ")",
                  " ", "(", "d", "e", "f", "i", "n", "e", " ", "(", "g", " ", "1", ")",
                  " ", "2", ")", "\n">>,
                <<"g", "\n">>,
                <<"(", "+", " ", "1", " ", "2", ")", " ", "(", "d", "e", "f", "m", "a",
                  "c", "r", "o", " ", "(", "h", " ", "1", ")", " ", "1", ")", "\n">>,
                <<"h", "\n">>>>]

\* The functions and the argument lists the two apply paths are tried on.  text is
\* the expression, proc tells whether its value is a procedure, lo..hi are the
\* numbers of arguments it takes; list tells whether the value is a list, len its
\* length.  m is a macro.
\*   car
\*   (lambda (x) x)
\*   (lambda (x . r) r)
\*   (lambda (x y) (cons y x))
\*   (lambda r r)
\*   1
\*   nil
\*   m
\*   (quote apply)
ApplyFns ==
    <<[text |-> <<"c", "a", "r">>,
       proc |-> TRUE, lo |-> 1, hi |-> 1],
      [text |-> <<"(", "l", "a", "m", "b", "d", "a", " ", "(", "x", ")", " ", "x", ")">>,
       proc |-> TRUE, lo |-> 1, hi |-> 1],
      [text |-> <<"(", "l", "a", "m", "b", "d", "a", " ", "(", "x", " ", ".", " ", "r",
                  ")", " ", "r", ")">>,
       proc |-> TRUE, lo |-> 1, hi |-> 9],
      [text |-> <<"(", "l", "a", "m", "b", "d", "a", " ", "(", "x", " ", "y", ")", " ",
                  "(", "c", "o", "n", "s", " ", "y", " ", "x", ")", ")">>,
       proc |-> TRUE, lo |-> 2, hi |-> 2],
      [text |-> <<"(", "l", "a", "m", "b", "d", "a", " ", "r", " ", "r", ")">>,
       proc |-> TRUE, lo |-> 0, hi |-> 9],
      [text |-> <<"1">>,
       proc |-> FALSE, lo |-> 0, hi |-> 0],
      [text |-> <<"n", "i", "l">>,
       proc |-> FALSE, lo |-> 0, hi |-> 0],
      [text |-> <<"m">>,
       proc |-> FALSE, lo |-> 0, hi |-> 0],
      [text |-> <<"(", "q", "u", "o", "t", "e", " ", "a", "p", "p", "l", "y", ")">>,
       proc |-> FALSE, lo |-> 0, hi |-> 0]>>

\*   (quote ((1 2)))
\*   nil
\*   5
\*   (quote (1 . 2))
\*   (quote (1 2))
\*   (quote ((+ 1 2)))
ApplyLists ==
    <<[text |-> <<"(", "q", "u", "o", "t", "e", " ", "(", "(", "1", " ", "2", ")", ")",
                  ")">>,
       list |-> TRUE, len |-> 1],
      [text |-> <<"n", "i", "l">>,
       list |-> TRUE, len |-> 0],
      [text |-> <<"5">>,
       list |-> FALSE, len |-> 0],
      [text |-> <<"(", "q", "u", "o", "t", "e", " ", "(", "1", " ", ".", " ", "2", ")",
                  ")">>,
       list |-> FALSE, len |-> 0],
      [text |-> <<"(", "q", "u", "o", "t", "e", " ", "(", "1", " ", "2", ")", ")">>,
       list |-> TRUE, len |-> 2],
      [text |-> <<"(", "q", "u", "o", "t", "e", " ", "(", "(", "+", " ", "1", " ", "2",
                  ")", ")", ")">>,
       list |-> TRUE, len |-> 1]>>

\* apply as the special form and as the builtin, bound to another name
\*   > (define ap apply)
\*   > (defmacro (m x) x)
\*   > (apply F XS)
\*   > (ap F XS)
S_apply(i, j) ==
    [name |-> "apply",
     n |-> (i - 1) * Len(ApplyLists) + j,
     lib |-> <<>>,
     lines |-> <<<<"(", "d", "e", "f", "i", "n", "e", " ", "a", "p", " ", "a", "p", "p", "l", "y", ")", "\n">>,
                 <<"(", "d", "e", "f", "m", "a", "c", "r", "o", " ", "(", "m", " ",
                   "x", ")", " ", "x", ")", "\n">>,
                 <<"(", "a", "p", "p", "l", "y", " ">> \o ApplyFns[i].text \o <<" ">>
                     \o ApplyLists[j].text \o <<")", "\n">>,
                 <<"(", "a", "p", " ">> \o ApplyFns[i].text \o <<" ">>
                     \o ApplyLists[j].text \o <<")", "\n">>>>]

\* the symbols of the special forms, in the order the scenarios rebind them
RebindSyms == <<STR_quote, STR_define, STR_if, STR_lambda, STR_defmacro, STR_apply>>

\* the expressions whose values they are rebound to
\*   1
\*   car
\*   (lambda (x) x)
RebindVals ==
    <<<<"1">>,
      <<"c", "a", "r">>,
      <<"(", "l", "a", "m", "b", "d", "a", " ", "(", "x", ")", " ", "x", ")">>>>

\* the text (define SYM VAL)
DefineText(k, j) ==
    <<"(", "d", "e", "f", "i", "n", "e", " ">> \o RebindSyms[k] \o <<" ">> \o RebindVals[j] \o <<")">>

\* one form for each special form
\*   > (quote a)
\*   > (if nil 1 2)
\*   > (define x 3)
\*   > ((lambda (y) y) 4)
\*   > (defmacro (m z) z)
\*   > (apply car (quote ((5 6))))
Probes ==
    <<<<"(", "q", "u", "o", "t", "e", " ", "a", ")", "\n">>,
      <<"(", "i", "f", " ", "n", "i", "l", " ", "1", " ", "2", ")", "\n">>,
      <<"(", "d", "e", "f", "i", "n", "e", " ", "x", " ", "3", ")", "\n">>,
      <<"(", "(", "l", "a", "m", "b", "d", "a", " ", "(", "y", ")", " ", "y", ")", " ",
        "4", ")", "\n">>,
      <<"(", "d", "e", "f", "m", "a", "c", "r", "o", " ", "(", "m", " ", "z", ")", " ",
        "z", ")", "\n">>,
      <<"(", "a", "p", "p", "l", "y", " ", "c", "a", "r", " ", "(", "q", "u", "o", "t",
        "e", " ", "(", "(", "5", " ", "6", ")", ")", ")", ")", "\n">>>>

\* The forms of Probes, then a line that rebinds the symbol of one special form,
\* or of all the six when i is 7, then the forms of Probes again
\*   > (define SYM VAL)
S_rebind(i, j) ==
    [name |-> "rebind",
     n |-> (i - 1) * Len(RebindVals) + j,
     lib |-> <<>>,
     lines |-> Probes
                 \o <<IF i <= Len(RebindSyms) THEN DefineText(i, j) \o <<"\n">>
                      ELSE DefineText(1, j) \o <<" ">> \o DefineText(2, j) \o <<" ">>
                               \o DefineText(3, j) \o <<" ">> \o DefineText(4, j) \o <<" ">>
                               \o DefineText(5, j) \o <<" ">> \o DefineText(6, j) \o <<"\n">>>>
                 \o Probes]

\* closures and a macro with two body forms: the frame of the call is gone through
\* again after the first; the macro is used, and a quoted list is applied, inside
\* the body of a closure that is called twice
\*   > (defmacro (two a b) 1 b)
\*   > (define (f y) (two (car 1) (+ y 1)))
\*   > (f 10)
\*   > (f 20)
\*   > (define (g a b) 1 (cons b a))
\*   > (define (k) (apply g (quote (1 2))))
\*   > (k)
\*   > (k)
\*   > (define (h . r) (apply g r))
\*   > (h 3 4)
\*   > ((lambda (a b c) 1 (cons a (cons b c))) 1 2 3)
S_frames ==
    [name |-> "frames",
     lib |-> <<>>,
     lines |-> <<<<"(", "d", "e", "f", "m", "a", "c", "r", "o", " ", "(", "t", "w", "o",
                  " ", "a", " ", "b", ")", " ", "1", " ", "b", ")", "\n">>,
                <<"(", "d", "e", "f", "i", "n", "e", " ", "(", "f", " ", "y", ")", " ",
                  "(", "t", "w", "o", " ", "(", "c", "a", "r", " ", "1", ")", " ", "(",
                  "+", " ", "y", " ", "1", ")", ")", ")", "\n">>,
                <<"(", "f", " ", "1", "0", ")", "\n">>,
                <<"(", "f", " ", "2", "0", ")", "\n">>,
                <<"(", "d", "e", "f", "i", "n", "e", " ", "(", "g", " ", "a", " ", "b",
                  ")", " ", "1", " ", "(", "c", "o", "n", "s", " ", "b", " ", "a", ")",
                  ")", "\n">>,
                <<"(", "d", "e", "f", "i", "n", "e", " ", "(", "k", ")", " ", "(", "a",
                  "p", "p", "l", "y", " ", "g", " ", "(", "q", "u", "o", "t", "e", " ",
                  "(", "1", " ", "2", ")", ")", ")", ")", "\n">>,
                <<"(", "k", ")", "\n">>,
                <<"(", "k", ")", "\n">>,
                <<"(", "d", "e", "f", "i", "n", "e", " ", "(", "h", " ", ".", " ", "r",
                  ")", " ", "(", "a", "p", "p", "l", "y", " ", "g", " ", "r", ")", ")",
                  "\n">>,
                <<"(", "h", " ", "3", " ", "4", ")", "\n">>,
                <<"(", "(", "l", "a", "m", "b", "d", "a", " ", "(", "a", " ", "b", " ",
                  "c", ")", " ", "1", " ", "(", "c", "o", "n", "s", " ", "a", " ", "(",
                  "c", "o", "n", "s", " ", "b", " ", "c", ")", ")", ")", " ", "1", " ",
                  "2", " ", "3", ")", "\n">>>>]

\* the sessions run from a count of 0 only
Calls ==
    {S_params, S_print, S_macro, S_order, S_baddef}
        \cup {S_fact(n) : n \in 0..MaxFact}
        \cup {S_apply(i, j) : i \in DOMAIN ApplyFns, j \in DOMAIN ApplyLists}
        \cup {S_rebind(i, j) : i \in 1..(Len(RebindSyms) + 1), j \in DOMAIN RebindVals}
        \cup {S_frames}

\* The collection inside eval_expr runs when the static count passes GcEvery.
\* count is 0 when main starts; loading a library whose forms took c iterations
\* leaves it at c.  The runs start with count 0, or with the count that makes
\* the first collection happen at the top of iteration k + 1, k <= MaxGcDelay.
MaxGcDelay == 40

CountStarts == {0} \cup {GcEvery - k : k \in 0..MaxGcDelay}

\* the counts a session is run from
Starts(session) == IF session \in Sessions THEN CountStarts ELSE {0}

-----------------------------------------------------------------------------
(* The drivers.  pc is the position of the C program:                          *)
(*   "load"     load_file, at the read_expr of its while condition             *)
(*   "loadret"  load_file, eval_expr has returned                              *)
(*   "prompt"   main, at readline                                              *)
(*   "mainform" main, at the condition of the loop over the forms of a line    *)
(*   "mainret"  main, eval_expr has returned                                   *)
(*   "eval"     eval_expr, at the top of its do-while loop                     *)
(*   "applyret" apply, the eval_expr of a body form has returned               *)
(*   "done"     main has returned;  "fault"  an invalid access has happened    *)
(* ctx holds, innermost first, what the suspended C functions keep in their    *)
(* locals: the driver that called the outermost eval_expr, and for each apply  *)
(* entered from a builtin the registers of the eval_expr that called it        *)
(* together with apply's own env and body.                                     *)

RECURSIVE Depth(_, _)
\* the number of frames on the stack
Depth(s, st) == IF Live(s, st) THEN 1 + Depth(s, car(s, st)) ELSE 0

\* the state on entry to eval_expr(e, en, result): err = Error_OK, stack = nil
Enter(s, e, en) == [s EXCEPT !.expr = e, !.env = en, !.stack = Nil, !.err = Error_OK]

\* a new top-level form: the history of the form before is dropped
NewForm(s) ==
    [s EXCEPT !.hist.badop = FALSE, !.hist.evals = <<>>, !.hist.depths = <<>>,
              !.hist.sites = <<>>, !.hist.frames = <<>>]

\* the body entry the step made, if any, goes on record with the stack depth
Entered(s) ==
    IF s.hist.entered = 0 THEN s.hist
    ELSE LET c == s.hist.entered
             d == Depth(s, s.stack)
         IN [s.hist EXCEPT !.depths =
                (c :> Append(IF c \in DOMAIN @ THEN @[c] ELSE <<>>, d)) @@ @]

\* the invalid access the step made, "none" when it made none
Access(s, ln) ==
    IF s.fault # "none" THEN s.fault
    ELSE IF \E a \in {s.expr, s.env, s.stack, s.result, ln} : a = Freed THEN "freed"
    ELSE IF \E a \in {s.expr, s.env, s.stack, s.result, ln} : a = Wild THEN "wild"
    ELSE IF \E a \in {s.expr, s.env, s.stack, ln} : a = Uninit THEN "uninit"
    ELSE "none"

\* the fields of s become the next state; the run stops at an invalid access
Commit(s, nctx, npc, nline, nlerr) ==
    /\ mem' = s.mem
    /\ global_allocations' = s.global_allocations
    /\ brk' = s.brk
    /\ sym_table' = s.sym_table
    /\ names' = s.names
    /\ count' = s.count
    /\ expr' = s.expr
    /\ env' = s.env
    /\ stack' = s.stack
    /\ result' = s.result
    /\ err' = s.err
    /\ hist' = Entered(s)
    /\ ctx' = nctx
    /\ line' = nline
    /\ lerr' = nlerr
    /\ fault' = Access(s, nline)
    /\ pc' = IF Access(s, nline) # "none" THEN "fault" ELSE npc

\* where eval_expr returns to
ReturnPc(c) == CASE Head(c).fn = "load_file" -> "loadret"
                 [] Head(c).fn = "main"      -> "mainret"
                 [] Head(c).fn = "apply"     -> "applyret"

\* the end of a loop iteration of eval_expr: the next iteration, the return to
\* the caller, or the call of eval_expr for the first body form by apply
Continue(s) ==
    CASE s.fault # "none" -> Commit(s, ctx, "fault", line, lerr)
      [] s.fault = "none" /\ s.k = "continue" -> Commit(s, ctx, "eval", line, lerr)
      [] s.fault = "none" /\ s.k = "return"   -> Commit(s, ctx, ReturnPc(ctx), line, lerr)
      [] s.fault = "none" /\ s.k = "call"     ->
            Commit(Enter(s, car(s, s.callbody), s.callenv),
                   <<[fn |-> "apply", expr |-> s.expr, env |-> s.env, stack |-> s.stack,
                      body |-> s.callbody, aenv |-> s.callenv]>> \o ctx,
                   "eval", line, lerr)

\* one iteration of the loop of eval_expr
EvalStep ==
    /\ pc = "eval"
    /\ Continue(EvalIteration(Machine))
    /\ UNCHANGED <<genv, stdin, lib, libpos, out>>

\* the eval_expr that called the builtin goes on after apply has returned
Resume(s) ==
    Commit(s, Tail(ctx), IF s.k = "continue" THEN "eval" ELSE ReturnPc(Tail(ctx)), line, lerr)

\* apply's body loop after eval_expr returned: return the error, or step to the
\* next body form, or return Error_OK; a return resumes the eval_expr that
\* called the builtin, after its call
ApplyBody ==
    /\ pc = "applyret"
    /\ LET top   == Head(ctx)
           body  == cdr(Machine, top.body)
           outer == [Machine EXCEPT !.expr = top.expr, !.env = top.env, !.stack = top.stack]
       IN IF err # Error_OK
          THEN Resume(EvalTail(outer))
          ELSE IF Poison(body) THEN Commit(Fault(Machine, body), ctx, "fault", line, lerr)
          ELSE IF ~nilp(body)
          THEN Commit(Enter(Machine, car(Machine, body), top.aenv),
                      <<[top EXCEPT !.body = body]>> \o Tail(ctx), "eval", line, lerr)
          ELSE Resume(EvalTail(outer))
    /\ UNCHANGED <<genv, stdin, lib, libpos, out>>

\* load_file: read the next expression of the text; stop at the first read that
\* fails, else call eval_expr on it
LoadForm(r) ==
    IF r.rerr # Error_OK
    THEN Commit(r, <<>>, "prompt", Nil, lerr) /\ UNCHANGED libpos
    ELSE /\ Commit(Enter(NewForm([r EXCEPT !.result = Uninit]), r.ret, genv),
                   <<[fn |-> "load_file"]>>, "eval", r.ret, lerr)
         /\ libpos' = r.rend

LoadRead ==
    /\ pc = "load"
    /\ LoadForm(read_expr(Machine, lib, libpos, Uninit))
    /\ UNCHANGED <<genv, stdin, lib, out>>

\* load_file after eval_expr: print the expression and the message, or the result
LoadPrint ==
    /\ pc = "loadret"
    /\ LET s   == Machine
           txt == IF err # Error_OK
                  THEN <<"Error in expression:">> \o print_expr(s, line) \o <<ErrorTag(err)>>
                  ELSE print_expr(s, result)
           f   == IF PrintFault(txt) # "none" THEN PrintFault(txt) ELSE Access(s, line)
       IN /\ out' = Append(out, txt)
          /\ fault' = f
          /\ pc' = IF f # "none" THEN "fault" ELSE "load"
          /\ hist' = [hist EXCEPT !.forms = @ + 1]
    /\ UNCHANGED <<mem, global_allocations, brk, sym_table, names, count, expr, env, stack,
                   result, err, ctx, genv, line, lerr, stdin, lib, libpos>>

\* readline at the end of the input: main returns
PromptEOF ==
    /\ pc = "prompt"
    /\ stdin = <<>>
    /\ pc' = "done"
    /\ UNCHANGED <<mem, global_allocations, brk, sym_table, names, count, expr, env, stack,
                   result, err, ctx, genv, line, lerr, stdin, lib, libpos, out, fault, hist>>

\* readline returns a line: wrap it in parentheses and read it
LineRead(r) ==
    Commit([r EXCEPT !.result = Uninit, !.hist.lineforms = 0], <<>>, "mainform", r.ret, r.rerr)

PromptLine ==
    /\ pc = "prompt"
    /\ stdin # <<>>
    /\ LineRead(read_expr(Machine, <<"(">> \o Head(stdin) \o <<")">>, 1, Uninit))
    /\ stdin' = Tail(stdin)
    /\ UNCHANGED <<genv, lib, libpos, out>>

\* a form of the line while err is Error_OK: call eval_expr on it
MainEval ==
    /\ pc = "mainform"
    /\ ~nilp(line)
    /\ lerr = Error_OK
    /\ Commit(Enter(NewForm(Machine), car(Machine, line), genv),
              <<[fn |-> "main"]>>, "eval", line, lerr)
    /\ UNCHANGED <<genv, stdin, lib, libpos, out>>

\* main after eval_expr: err takes the returned Error; print the result or the
\* message; step to the next form of the line
MainPrint ==
    /\ pc = "mainret"
    /\ LET s   == Machine
           txt == IF err # Error_OK THEN <<ErrorTag(err)>> ELSE print_expr(s, result)
           nxt == cdr(s, line)
           f   == IF PrintFault(txt) # "none" THEN PrintFault(txt) ELSE Access(s, nxt)
       IN /\ out' = Append(out, txt)
          /\ line' = nxt
          /\ fault' = f
          /\ pc' = IF f # "none" THEN "fault" ELSE "mainform"
          /\ lerr' = err
          /\ hist' = [hist EXCEPT !.forms = @ + 1, !.lineforms = @ + 1]
    /\ UNCHANGED <<mem, global_allocations, brk, sym_table, names, count, expr, env, stack,
                   result, err, ctx, genv, stdin, lib, libpos>>

\* a form of the line while err is not Error_OK: eval_expr is not called; the
\* message of err is printed; step to the next form of the line
MainSkip ==
    /\ pc = "mainform"
    /\ ~nilp(line)
    /\ lerr # Error_OK
    /\ LET nxt == cdr(Machine, line)
           f   == Access(Machine, nxt)
       IN /\ out' = Append(out, <<ErrorTag(lerr)>>)
          /\ line' = nxt
          /\ fault' = f
          /\ pc' = IF f # "none" THEN "fault" ELSE "mainform"
          /\ hist' = [hist EXCEPT !.skipped = @ + 1]
    /\ UNCHANGED <<mem, global_allocations, brk, sym_table, names, count, expr, env, stack,
                   result, err, ctx, genv, lerr, stdin, lib, libpos>>

\* the end of the line: gc_mark(env); gc();
MainCollect ==
    /\ pc = "mainform"
    /\ nilp(line)
    /\ LET s == gc(gc_mark(Machine, genv))
       IN Commit([s EXCEPT !.hist.lines = @ + 1], ctx, "prompt", line, lerr)
    /\ UNCHANGED <<genv, stdin, lib, libpos, out>>

\* main has set up the environment and is about to call load_file
Init ==
    \E session \in Sessions \cup Calls, c \in CountStarts :
        LET s == Startup
        IN /\ c \in Starts(session)
           /\ mem = s.mem
           /\ global_allocations = s.global_allocations
           /\ brk = s.brk
           /\ sym_table = s.sym_table
           /\ names = s.names
           /\ count = c
           /\ expr = Nil
           /\ env = Nil
           /\ stack = Nil
           /\ result = Uninit
           /\ err = Error_OK
           /\ ctx = <<>>
           /\ pc = "load"
           /\ genv = s.ret
           /\ line = Nil
           /\ lerr = Error_OK
           /\ stdin = session.lines
           /\ lib = session.lib
           /\ libpos = 1
           /\ out = <<>>
           /\ fault = "none"
           /\ hist = [s.hist EXCEPT !.name = session.name, !.count0 = c,
                                    !.arg = IF "n" \in DOMAIN session THEN session.n ELSE 0]

Next ==
    \/ LoadRead
    \/ LoadPrint
    \/ PromptEOF
    \/ PromptLine
    \/ MainEval
    \/ MainPrint
    \/ MainSkip
    \/ MainCollect
    \/ EvalStep
    \/ ApplyBody

Spec == Init /\ [][Next]_vars

-----------------------------------------------------------------------------
(* The heap on its own: any caller of cons, of the car/cdr assignments, of     *)
(* make_sym, and of gc_mark followed by gc, starting with no allocation and an *)
(* empty symbol table.  The callers in the program mark their roots and call   *)
(* gc back to back, so nothing is stored between the first gc_mark and gc.     *)
(* Here hist records the last call: its name, argument and return value, the   *)
(* heap before a gc with the roots marked for it, and for every name interned  *)
(* so far the Symbol make_sym returned for it the first time.                  *)

\* allocations the heap run makes in all
MaxHeap == 3

\* the names the heap run interns
SymNames == {<<"a">>, <<"b">>}

HeapMachine ==
    [Blank EXCEPT !.mem = mem, !.global_allocations = global_allocations, !.brk = brk,
                  !.sym_table = sym_table, !.names = names, !.fault = fault]

RECURSIVE Spine(_, _)
\* the cells of the list p
Spine(s, p) == IF Live(s, p) THEN {p.v} \cup Spine(s, cdr(s, p)) ELSE {}

\* pointers a caller can hold, under each of the three tags: to the allocated
\* cells but those of the symbol table, which only make_sym sees
Pointers(t) ==
    {[type |-> t, v |-> a] : a \in DOMAIN mem \ Spine(HeapMachine, sym_table)}

HeapCommit(s, npc, h) ==
    /\ mem' = s.mem
    /\ global_allocations' = s.global_allocations
    /\ brk' = s.brk
    /\ sym_table' = s.sym_table
    /\ names' = s.names
    /\ fault' = s.fault
    /\ pc' = npc
    /\ hist' = h
    /\ UNCHANGED <<count, expr, env, stack, result, err, ctx, genv, line, lerr,
                   stdin, lib, libpos, out>>

HeapHist0 ==
    [last |-> "", arg |-> <<>>, ret |-> Nil, roots |-> {}, pre |-> <<>>, prelist |-> <<>>,
     presyms |-> Nil, syms |-> <<>>, marked |-> {}]

InitHeap ==
    /\ mem = Blank.mem
    /\ global_allocations = Blank.global_allocations
    /\ brk = Blank.brk
    /\ sym_table = Blank.sym_table
    /\ names = Blank.names
    /\ fault = "none"
    /\ pc = "heap"
    /\ hist = HeapHist0
    /\ count = 0
    /\ expr = Nil
    /\ env = Nil
    /\ stack = Nil
    /\ result = Nil
    /\ err = Error_OK
    /\ ctx = <<>>
    /\ genv = Nil
    /\ line = Nil
    /\ lerr = Error_OK
    /\ stdin = <<>>
    /\ lib = <<>>
    /\ libpos = 1
    /\ out = <<>>

\* cons(a, b)
HeapCons ==
    /\ pc = "heap"
    /\ brk <= MaxHeap
    /\ \E a \in {make_int(1)} \cup Pointers("Pair"),
          b \in {Nil} \cup Pointers("Closure") :
          LET s == cons(HeapMachine, a, b)
          IN HeapCommit(s, "heap", [HeapHist0 EXCEPT !.last = "cons", !.syms = hist.syms])

\* car(p) = x
HeapSetCar ==
    /\ pc = "heap"
    /\ \E p \in Pointers("Pair"), x \in Pointers("Macro") :
          HeapCommit(SetCar(HeapMachine, p, x), "heap",
                     [HeapHist0 EXCEPT !.last = "setcar", !.syms = hist.syms])

\* cdr(p) = x
HeapSetCdr ==
    /\ pc = "heap"
    /\ \E p \in Pointers("Pair"), x \in {Nil} :
          HeapCommit(SetCdr(HeapMachine, p, x), "heap",
                     [HeapHist0 EXCEPT !.last = "setcdr", !.syms = hist.syms])

\* make_sym(str)
HeapMakeSym ==
    /\ pc = "heap"
    /\ \E str \in SymNames :
          /\ str \in DOMAIN hist.syms \/ brk <= MaxHeap
          /\ LET s == make_sym(HeapMachine, str)
             IN HeapCommit(s, "heap",
                   [HeapHist0 EXCEPT !.last = "make_sym", !.arg = str, !.ret = s.ret,
                                     !.syms = IF str \in DOMAIN hist.syms THEN hist.syms
                                              ELSE (str :> s.ret) @@ hist.syms])

\* gc_mark(root), for a root that points at an allocated cell or at none
HeapMark ==
    /\ pc \in {"heap", "marking"}
    /\ \E root \in {Nil} \cup Pointers("Pair") :
          /\ pc = "marking" => root \notin hist.roots
          /\ HeapCommit(gc_mark(HeapMachine, root), "marking",
                        [HeapHist0 EXCEPT !.last = "gc_mark", !.syms = hist.syms,
                                          !.roots = (IF pc = "marking" THEN hist.roots
                                                     ELSE {}) \cup {root}])

\* gc()
HeapGc ==
    /\ pc \in {"heap", "marking"}
    /\ HeapCommit(gc(HeapMachine), "heap",
                  [hist EXCEPT !.last = "gc", !.pre = mem, !.prelist = global_allocations,
                               !.presyms = sym_table,
                               !.marked = {a \in DOMAIN mem :
                                             gc_mark(HeapMachine, sym_table).mem[a].mark},
                               !.roots = IF pc = "marking" THEN @ ELSE {}])

NextHeap ==
    \/ HeapCons
    \/ HeapSetCar
    \/ HeapSetCdr
    \/ HeapMakeSym
    \/ HeapMark
    \/ HeapGc

SpecHeap == InitHeap /\ [][NextHeap]_vars

-----------------------------------------------------------------------------
(* The reader on its own: the loop of load_file over a text, without the       *)
(* evaluation: read_expr is called at the start of the text and then, as long  *)
(* as it returns Error_OK, at the end position it has returned.  The texts are *)
(* all the texts of up to MaxText pieces drawn from Pieces.  hist records the   *)
(* last call: where it started and what it returned.                           *)

\* the number of pieces of the longest text read
MaxText == 5

Pieces == {<<"(">>, <<")">>, <<"a">>, <<" ">>, <<".">>, <<" ", ".", " ">>, <<"'">>}

RECURSIVE TextsOf(_)
\* the texts of n pieces
TextsOf(n) ==
    IF n = 0 THEN {<<>>} ELSE {txt \o c : txt \in TextsOf(n - 1), c \in Pieces}

Texts == UNION {TextsOf(n) : n \in 0..MaxText}

ReadHist0 == [calls |-> 0, start |-> 0, err |-> Error_OK, end |-> 0, val |-> Nil]

\* main has set up the symbol table and the environment; slurp has returned a text
InitRead ==
    \E text \in Texts :
        /\ mem = Startup.mem
        /\ global_allocations = Startup.global_allocations
        /\ brk = Startup.brk
        /\ sym_table = Startup.sym_table
        /\ names = Startup.names
        /\ fault = "none"
        /\ pc = "read"
        /\ hist = ReadHist0
        /\ count = 0
        /\ expr = Nil
        /\ env = Nil
        /\ stack = Nil
        /\ result = Nil
        /\ err = Error_OK
        /\ ctx = <<>>
        /\ genv = Startup.ret
        /\ line = Nil
        /\ lerr = Error_OK
        /\ stdin = <<>>
        /\ lib = text
        /\ libpos = 1
        /\ out = <<>>

\* what a call of read_expr at libpos leaves: the heap, the position for the next
\* call when it has returned Error_OK, the end of the loop when it has not
ReadDone(r) ==
    /\ mem' = r.mem
    /\ global_allocations' = r.global_allocations
    /\ brk' = r.brk
    /\ sym_table' = r.sym_table
    /\ names' = r.names
    /\ fault' = r.fault
    /\ pc' = IF r.rerr = Error_OK THEN "read" ELSE "stop"
    /\ libpos' = IF r.rerr = Error_OK THEN r.rend ELSE libpos
    /\ hist' = [calls |-> hist.calls + 1, start |-> libpos, err |-> r.rerr,
                end |-> r.rend, val |-> r.ret]
    /\ UNCHANGED <<count, expr, env, stack, result, err, ctx, genv, line, lerr,
                   stdin, lib, out>>

\* while (read_expr(p, &p, &expr) == Error_OK)
ReadExpr ==
    /\ pc = "read"
    /\ ReadDone(read_expr(HeapMachine, lib, libpos, Uninit))

NextRead == ReadExpr

SpecRead == InitRead /\ [][NextRead]_vars

-----------------------------------------------------------------------------
(* Properties of the heap (checked under SpecHeap)                             *)

RECURSIVE ReachFrom(_, _)
\* the least set of cells of heap m that holds the cells of S and, with a cell,
\* the cells its car and cdr point at under a Pair, Closure or Macro tag
ReachFrom(m, S) ==
    LET fields == {m[a].car : a \in S} \cup {m[a].cdr : a \in S}
        N      == S \cup {x.v : x \in {y \in fields : y.type \in HeapTypes}}
    IN IF N = S THEN S ELSE ReachFrom(m, N)

\* the cells of heap m reachable from the atoms in roots
ReachSet(m, roots) == ReachFrom(m, {r.v : r \in {x \in roots : x.type \in HeapTypes}})

\* C3: gc() frees a cell if and only if it is reachable neither from a root
\* marked with gc_mark before the call nor from the symbol table: right after a
\* gc, the allocated cells are exactly the reachable cells of the heap before
\* it, the allocation list is the old one without the freed cells, and every
\* cell that stays has the car and cdr it had.
GcFreesExactlyUnreachable ==
    hist.last = "gc" =>
        LET keep == ReachSet(hist.pre, hist.roots \cup {hist.presyms})
        IN /\ DOMAIN mem = keep
           /\ global_allocations = SelectSeq(hist.prelist, LAMBDA a : a \in keep)
           /\ \A a \in keep : /\ mem[a].car = hist.pre[a].car
                              /\ mem[a].cdr = hist.pre[a].cdr
                              /\ ~mem[a].mark

\* a gc with a marked root has freed a cell and kept a two-cell structure: a cell
\* whose car points back at the cell whose cdr points at it
GcFreesExactlyUnreachableWitness ==
    /\ hist.last = "gc"
    /\ hist.roots # {}
    /\ DOMAIN hist.pre \ DOMAIN mem # {}
    /\ \E a, b \in DOMAIN mem :
          /\ a # b
          /\ mem[a].cdr = [type |-> "Closure", v |-> b]
          /\ mem[b].car = [type |-> "Macro", v |-> a]
          /\ PairAtom(a) \in hist.roots
          /\ PairAtom(b) \notin hist.roots

\* C13: at the end of the mark phase of gc() the marked cells are the cells
\* reachable from the roots marked with gc_mark and from the symbol table (after
\* the gc_mark calls before it, those reachable from their roots); when gc()
\* returns, the allocation list holds the allocated cells and none of them is
\* marked; and whenever a collection starts, after any allocations, stores and
\* collections, no allocated cell is marked.
MarksSetThenCleared ==
    /\ pc = "marking" =>
          {a \in DOMAIN mem : mem[a].mark} = ReachSet(mem, hist.roots)
    /\ hist.last = "gc" =>
          /\ hist.marked = ReachSet(hist.pre, hist.roots \cup {hist.presyms})
          /\ Range(global_allocations) = DOMAIN mem
          /\ \A a \in DOMAIN mem : ~mem[a].mark
    /\ pc = "heap" => \A a \in DOMAIN mem : ~mem[a].mark

\* a collection with a marked root, after an earlier collection that freed a
\* cell, has marked a cell, freed a cell and kept what it had marked
MarksSetThenClearedWitness ==
    /\ hist.last = "gc"
    /\ hist.roots # {}
    /\ hist.marked # {}
    /\ Cardinality(DOMAIN hist.pre) < brk - 1
    /\ DOMAIN hist.pre \ DOMAIN mem # {}
    /\ DOMAIN mem = hist.marked

\* C9: make_sym returns the same Symbol for two strings if and only if they are
\* the same string, with any cons, gc_mark and gc calls in between: the Symbol a
\* make_sym call returns equals the Symbol first returned for a name exactly when
\* that name is the string it was called with; and no entry of the symbol table
\* is freed: the table always holds, for every name interned so far, the Symbol
\* first returned for it, in cells that are allocated.
SymbolIdentity ==
    /\ hist.last = "make_sym" =>
          \A str \in DOMAIN hist.syms : (hist.ret = hist.syms[str]) <=> (str = hist.arg)
    /\ \A str \in DOMAIN hist.syms : SymLookup(HeapMachine, sym_table, str) = hist.syms[str]
    /\ Cardinality(Spine(HeapMachine, sym_table)) = Cardinality(DOMAIN hist.syms)
    /\ \A s1, s2 \in DOMAIN hist.syms : (hist.syms[s1] = hist.syms[s2]) => (s1 = s2)

\* make_sym has returned, for a name interned before, the Symbol of that name,
\* after a gc that freed a cell, with a second name in the table
SymbolIdentityWitness ==
    /\ hist.last = "make_sym"
    /\ Cardinality(DOMAIN hist.syms) = 2
    /\ Len(names) = 2
    /\ hist.ret = hist.syms[hist.arg]
    /\ brk > Len(global_allocations) + 1

-----------------------------------------------------------------------------
(* Properties of the interpreter (checked under Spec)                          *)

\* C1: a collection at the top of an iteration of eval_expr frees no cell that
\* the rest of the session still reads, so that what is printed is what is
\* printed without the collection: once eval_expr has collected, no step of the
\* session reads a freed cell.
GcKeepsWhatIsRead == hist.gcs > 0 => fault # "freed"

\* C2: a procedure that calls itself in tail position (as the chosen branch of
\* the if that is its last body form) re-enters its body at the stack depth of
\* its first entry, whatever the number of iterations.
TailCallDepthConstant ==
    hist.name \in {"loop", "loop2"} =>
        \A c \in DOMAIN hist.depths :
            \A i \in DOMAIN hist.depths[c] :
                /\ hist.depths[c][i] = hist.depths[c][1]
                /\ hist.depths[c][i] <= 2

\* the two-form loop has entered its body MaxIter + 1 times, under the frame of
\* the call it is an argument of and its own frame
TailCallDepthConstantWitness ==
    /\ hist.name = "loop2"
    /\ fault = "none"
    /\ \E c \in DOMAIN hist.depths :
          /\ Len(hist.depths[c]) = MaxIter + 1
          /\ hist.depths[c][MaxIter + 1] = 2

\* C4 (as the program has it): the defmacro form yields unless; the use
\* (unless nil 1 2) expands to (if nil nil 1 2), an if with four arguments, and
\* ends with Error_Args.
UnlessExpandsToFourArgumentIf ==
    (pc = "done" /\ hist.name = "unless") =>
        out = <<<<"u", "n", "l", "e", "s", "s">>, <<"Wrong number of arguments">>>>

\* the session has run to its end without a collection inside eval_expr
UnlessExpandsToFourArgumentIfWitness ==
    /\ pc = "done"
    /\ hist.name = "unless"
    /\ hist.count0 = 0
    /\ Len(out) = 2

\* C4 (as stated): the defmacro form yields unless and (unless nil 1 2) yields 2.
UnlessYieldsTwo ==
    (pc = "done" /\ hist.name = "unless") =>
        out = <<<<"u", "n", "l", "e", "s", "s">>, <<"2">>>>

\* C5: a form in which the operator of a call has evaluated to something that
\* is no builtin, closure or macro ends with Error_Type.
NonProcedureOperatorIsTypeError ==
    (pc \in {"mainret", "loadret"} /\ hist.badop) => err = Error_Type

\* C6: after a form of a line has been evaluated, whatever its Error, the next
\* form of the line is evaluated too: main's err is Error_OK when the loop over
\* the forms comes to it.
NextFormIsEvaluated ==
    (pc = "mainform" /\ ~nilp(line) /\ hist.lineforms > 0) => lerr = Error_OK

RECURSIVE Bindings(_, _)
\* the bindings of the list bs, as <<symbol, value>> pairs in order
Bindings(s, bs) ==
    IF ~Live(s, bs) \/ ~Live(s, car(s, bs)) THEN <<>>
    ELSE <<<<car(s, car(s, bs)), cdr(s, car(s, bs))>>>> \o Bindings(s, cdr(s, bs))

\* the local bindings of the environment at address e
Local(s, e) == Bindings(s, cdr(s, PairAtom(e)))

\* C7: define updates an existing binding in place: every environment holds at
\* most one binding per symbol; right after an env_set the environment yields
\* the value set; and in the redefinition scenario (f) yields 20.
OneBindingPerSymbol ==
    fault = "none" =>
        /\ \A e \in hist.envs \cap DOMAIN mem :
              LET l == Local(Machine, e)
              IN \A i, j \in DOMAIN l : l[i][1] = l[j][1] => i = j
        /\ hist.lastset.env # Nil =>
              env_get(Machine, hist.lastset.env, hist.lastset.sym)
                  = [err |-> Error_OK, val |-> hist.lastset.val]
        /\ (pc = "done" /\ hist.name = "redefine") =>
              out = <<<<"x">>, <<"f">>, <<"x">>, <<"2", "0">>>>

\* x has been defined a second time in the root environment, which holds the
\* new value in its one binding of x, and (f) has printed it
OneBindingPerSymbolWitness ==
    /\ pc = "done"
    /\ hist.name = "redefine"
    /\ Len(out) = 4
    /\ LET l == Local(Machine, genv.v)
       IN \E i \in DOMAIN l : /\ l[i][1].type = "Symbol"
                              /\ names[l[i][1].v] = <<"x">>
                              /\ l[i][2] = make_int(20)

\* C8: env_set changes the bindings of the environment it is called on and of
\* no other: in every step, an environment that no env_set of the step was
\* called on keeps its bindings; and in the shadowing scenario the root x is
\* still 1 after (g) has defined x and y in its own environment, and y is not
\* bound at top level.
EnvSetIsLocal ==
    /\ [][\A e \in hist.envs :
            (e \in DOMAIN mem /\ e \in DOMAIN mem' /\ e \notin hist'.setenv /\ fault' = "none")
                => Local([mem |-> mem'], e) = Local([mem |-> mem], e)]_vars
    /\ []((pc = "done" /\ hist.name = "shadow") =>
            out = <<<<"x">>, <<"g">>, <<"2">>, <<"1">>, <<"h">>, <<"5">>, <<"Symbol not bound">>>>)

\* a step has set x to 2 in an environment that is not the root, while the root
\* environment binds x to 1
EnvSetIsLocalWitness ==
    /\ hist.name = "shadow"
    /\ fault = "none"
    /\ hist.lastset.env \notin {Nil, genv}
    /\ hist.lastset.sym.type = "Symbol"
    /\ names[hist.lastset.sym.v] = <<"x">>
    /\ hist.lastset.val = make_int(2)
    /\ env_get(Machine, genv, hist.lastset.sym) = [err |-> Error_OK, val |-> make_int(1)]

\* how many times eval_expr has taken x as its expr in the current top-level form
Evals(x) == IF x.type = "Pair" /\ x.v \in DOMAIN hist.evals THEN hist.evals[x.v] ELSE 0

\* the if forms evaluated in the current top-level form whose test and branches
\* are all calls or special forms
IfForms ==
    {a \in DOMAIN hist.evals \cap DOMAIN mem :
        LET s == Machine
            x == PairAtom(a)
        IN /\ listp(s, x)
           /\ car(s, x) = sym_if(s)
           /\ ~nilp(nthcdr(s, x, 3)) /\ nilp(nthcdr(s, x, 4))
           /\ \A k \in 1..3 : list_get(s, x, k).type = "Pair"}

\* C10: for an if form, the test is evaluated once per evaluation of the form
\* and one branch is evaluated per evaluation of the test, never both: while
\* the form is being evaluated the counts differ by at most the evaluation in
\* progress, and they are equal when the top-level form has ended with
\* Error_OK.  The branch taken is else when the test is nil and then otherwise:
\* the two scenarios print the binding the chosen branch made and fail on the
\* symbol the other branch would have bound.
IfEvaluatesOneBranch ==
    /\ fault = "none" =>
          \A a \in IfForms :
              LET s  == Machine
                  n  == hist.evals[a]
                  t  == Evals(list_get(s, PairAtom(a), 1))
                  b  == Evals(list_get(s, PairAtom(a), 2)) + Evals(list_get(s, PairAtom(a), 3))
              IN /\ t \in {n - 1, n}
                 /\ b \in {t - 1, t}
                 /\ (pc \in {"mainret", "loadret"} /\ err = Error_OK) => (t = n /\ b = n)
    /\ (pc = "done" /\ hist.name = "ifthen") =>
          out = <<<<"c">>, <<"a">>, <<"1">>, <<"1">>, <<"Symbol not bound">>>>
    /\ (pc = "done" /\ hist.name = "ifelse") =>
          out = <<<<"c">>, <<"b">>, <<"1">>, <<"2">>, <<"Symbol not bound">>>>

\* the if form of the second scenario has been evaluated: its test once, its
\* else branch once, its then branch not at all
IfEvaluatesOneBranchWitness ==
    /\ hist.name = "ifelse"
    /\ pc = "mainret"
    /\ err = Error_OK
    /\ \E a \in IfForms :
          /\ Evals(list_get(Machine, PairAtom(a), 1)) = 1
          /\ Evals(list_get(Machine, PairAtom(a), 2)) = 0
          /\ Evals(list_get(Machine, PairAtom(a), 3)) = 1

RECURSIVE ListSeq(_, _)
\* the elements of the list l, in order
ListSeq(s, l) == IF Live(s, l) THEN <<car(s, l)>> \o ListSeq(s, cdr(s, l)) ELSE <<>>

RECURSIVE Positional(_, _)
\* the positional parameters of a parameter list, in order
Positional(s, p) == IF Live(s, p) THEN <<car(s, p)>> \o Positional(s, cdr(s, p)) ELSE <<>>

RECURSIVE RestSym(_, _)
\* the rest parameter of a parameter list: its dotted tail, or the list when it
\* is a symbol; Nil when there is none
RestSym(s, p) == IF Live(s, p) THEN RestSym(s, cdr(s, p)) ELSE p

\* the value the environment e itself binds sym to
LocalValue(s, e, sym) == cdr(s, FindBinding(s, cdr(s, e), sym))

\* C11: when a closure is applied, a fresh environment whose parent is the
\* closure's environment binds the positional parameters to the arguments at
\* their positions (the last of two parameters of one name wins) and the rest
\* parameter, if there is one, to the list of the arguments left over (nil
\* when none is left), and binds nothing else; the call ends with Error_Args
\* exactly when the arguments are fewer than the positional parameters, or
\* more of them with no rest parameter.  The calls of the scenario yield
\* (2 3), nil, (1 2), (2 . 1) and three times Error_Args.
ClosureCallBindsPositionally ==
    /\ (fault = "none" /\ hist.call.op # Nil) =>
          LET s    == Machine
              c    == hist.call
              pos  == Positional(s, car(s, cdr(s, c.op)))
              rest == RestSym(s, car(s, cdr(s, c.op)))
              args == ListSeq(s, c.args)
              n    == Len(pos)
          IN /\ (err = Error_Args) <=> (Len(args) < n \/ (Len(args) > n /\ nilp(rest)))
             /\ err \in {Error_OK, Error_Args}
             /\ car(s, c.env) = car(s, c.op)
             /\ err = Error_OK =>
                   /\ \A i \in 1..n :
                         ((\A j \in (i + 1)..n : pos[j] # pos[i]) /\ rest # pos[i])
                             => LocalValue(s, c.env, pos[i]) = args[i]
                   /\ ~nilp(rest) =>
                         ListSeq(s, LocalValue(s, c.env, rest)) = SubSeq(args, n + 1, Len(args))
                   /\ {b[1] : b \in Range(Local(s, c.env.v))} = Range(pos) \cup ({rest} \ {Nil})
    /\ (pc = "done" /\ hist.name = "params") =>
          out = <<<<"(", "2", " ", "3", ")">>, STR_nil, <<"(", "1", " ", "2", ")">>,
                  <<"(", "2", " ", ".", " ", "1", ")">>,
                  <<"Wrong number of arguments">>, <<"Wrong number of arguments">>,
                  <<"Wrong number of arguments">>>>

\* a closure with one positional parameter and a rest parameter has been applied
\* to three arguments: the rest parameter is bound to the list of the last two
ClosureCallBindsPositionallyWitness ==
    /\ hist.name = "params"
    /\ fault = "none"
    /\ err = Error_OK
    /\ hist.call.op.type = "Closure"
    /\ Len(ListSeq(Machine, hist.call.args)) = 3
    /\ Len(Positional(Machine, car(Machine, cdr(Machine, hist.call.op)))) = 1
    /\ ListSeq(Machine, LocalValue(Machine, hist.call.env,
                                   RestSym(Machine, car(Machine, cdr(Machine, hist.call.op)))))
          = <<make_int(2), make_int(3)>>

RECURSIVE Factorial(_)
Factorial(n) == IF n = 0 THEN 1 ELSE n * Factorial(n - 1)

\* C12: calls that are not in tail position return through the frame stack:
\* every application of a closure binds its arguments in an environment that
\* the application itself has allocated and whose parent is the environment
\* the closure has captured, and the caller goes on with its own environment
\* and with the arguments it had evaluated before the nested call: with fact
\* and tri defined as in the scenario, (fact n) yields n! (the caller's n and
\* the frame's arguments survive the nested call) and (tri n), which reads n
\* after the nested call has returned, yields 0 + 1 + ... + n.
NonTailRecursionReturns ==
    /\ (fault = "none" /\ hist.call.op # Nil) =>
          /\ hist.call.env.v >= hist.call.brk
          /\ car(Machine, hist.call.env) = car(Machine, hist.call.op)
    /\ (pc = "done" /\ hist.name = "fact") =>
          out = <<<<"f", "a", "c", "t">>, <<"t", "r", "i">>,
                  IntChars(Factorial(hist.arg)),
                  IntChars((hist.arg * (hist.arg + 1)) \div 2)>>

\* (fact MaxFact) and (tri MaxFact) have been printed
NonTailRecursionReturnsWitness ==
    /\ pc = "done"
    /\ hist.name = "fact"
    /\ hist.arg = MaxFact
    /\ Len(out) = 4
    /\ out[3] = IntChars(Factorial(MaxFact))

RECURSIVE Atoms(_, _)
\* the atoms of v that are not pairs: v itself, or what the cars and cdrs of its
\* pairs hold
Atoms(s, v) ==
    IF v.type = "Pair" /\ Live(s, v) THEN Atoms(s, car(s, v)) \cup Atoms(s, cdr(s, v))
    ELSE {v}

RECURSIVE StructEq(_, _, _)
\* a and b have the same variant at every position, the same integers and the
\* same symbols
StructEq(s, a, b) ==
    IF a.type = "Pair" /\ b.type = "Pair" /\ Live(s, a) /\ Live(s, b)
    THEN StructEq(s, car(s, a), car(s, b)) /\ StructEq(s, cdr(s, a), cdr(s, b))
    ELSE a = b

\* reading what print_expr writes for v yields a value equal to v
RoundTrip(s, v) ==
    LET r == read_expr(s, print_expr(s, v), 1, Uninit)
    IN r.rerr = Error_OK /\ r.fault = "none" /\ StructEq(r, r.ret, v)

\* the values at hand: the result a driver is about to print, and the forms of
\* the line that are still to be evaluated
AtHand ==
    (IF pc \in {"mainret", "loadret"} /\ err = Error_OK THEN {result} ELSE {})
        \cup (IF pc = "mainform" THEN {line} ELSE {})

\* C14 (as the program has it): reading the text that print_expr writes for a
\* value yields a value equal to it in structure when the value is built from
\* nil, integers, symbols other than the one named by a single dot, and proper
\* and improper pairs of these.
DataRoundTrip ==
    fault = "none" =>
        \A v \in AtHand :
            (\A a \in Atoms(Machine, v) :
                 \/ a.type \in {"Nil", "Integer"}
                 \/ a.type = "Symbol" /\ names[a.v] # <<".">>)
                => RoundTrip(Machine, v)

\* the improper list that holds a negative integer, nil and quote forms is about
\* to be printed and reads back as it is
DataRoundTripWitness ==
    /\ hist.name = "print"
    /\ pc = "mainret"
    /\ err = Error_OK
    /\ fault = "none"
    /\ make_int(0 - 12) \in Atoms(Machine, result)
    /\ Nil \in Atoms(Machine, result)
    /\ Cardinality(Atoms(Machine, result)) > 5
    /\ RoundTrip(Machine, result)

\* C14 (as stated): reading the text that print_expr writes for a value yields
\* a value equal to it in structure when no builtin is part of the value.
ValueRoundTrip ==
    fault = "none" =>
        \A v \in AtHand :
            (\A a \in Atoms(Machine, v) : a.type # "Builtin") => RoundTrip(Machine, v)

-----------------------------------------------------------------------------
(* Properties of the reader (checked under SpecRead) *)

RECURSIVE Abs(_, _)
\* the value an atom stands for: nil, a symbol by its name, an integer, a pair
Abs(s, v) ==
    CASE v.type = "Pair" /\ Live(s, v) -> <<"pair", Abs(s, car(s, v)), Abs(s, cdr(s, v))>>
      [] v.type = "Symbol" /\ v.v \in DOMAIN s.names -> <<"sym", s.names[v.v]>>
      [] v.type = "Integer" -> <<"int", v.v>>
      [] v.type = "Nil" -> <<"nil">>
      [] OTHER -> <<"other", v>>

\* the token at or after i: its kind, its text, the position after it
Token(str, i) ==
    LET b == strspn_ws(str, i)
        e == strcspn_delim(str, b)
    IN IF At(str, b) = NUL THEN [kind |-> "eof", text |-> <<>>, end |-> b]
       ELSE IF At(str, b) = "(" THEN [kind |-> "open", text |-> <<"(">>, end |-> b + 1]
       ELSE IF At(str, b) = ")" THEN [kind |-> "close", text |-> <<")">>, end |-> b + 1]
       ELSE IF At(str, b) = "'" THEN [kind |-> "quote", text |-> <<"'">>, end |-> b + 1]
       ELSE IF e = b + 1 /\ At(str, b) = "." THEN [kind |-> "dot", text |-> <<".">>, end |-> e]
       ELSE [kind |-> "word", text |-> SubSeq(str, b, e - 1), end |-> e]

RefFail(why, end) == [ok |-> FALSE, why |-> why, end |-> end, val |-> <<>>]

RefOk(val, end) == [ok |-> TRUE, why |-> "none", end |-> end, val |-> val]

RECURSIVE RefExpr(_, _, _)
RECURSIVE RefTail(_, _, _)
\* The grammar of the texts, by recursive descent:
\*   expr ::= word | "." | ' expr | ( tail        tail ::= ) | expr tail | expr . expr )
\* inlist is TRUE for an item of a list, where a lone dot is not an expression.
\* The result says whether an expression starts at i, where it ends and what it
\* denotes, and otherwise which of the four errors stops it.
RefExpr(str, i, inlist) ==
    LET tk == Token(str, i)
    IN CASE tk.kind = "eof" -> RefFail("open", 0)
         [] tk.kind = "close" -> RefFail("close", tk.end)
         [] tk.kind = "dot" /\ inlist -> RefFail("dot", tk.end)
         [] tk.kind = "dot" /\ ~inlist -> RefOk(<<"sym", tk.text>>, tk.end)
         [] tk.kind = "word" ->
                RefOk(IF tk.text = STR_nil THEN <<"nil">> ELSE <<"sym", tk.text>>, tk.end)
         [] tk.kind = "quote" ->
                LET q == RefExpr(str, tk.end, FALSE)
                IN IF q.ok
                   THEN RefOk(<<"pair", <<"sym", STR_quote>>, <<"pair", q.val, <<"nil">>>>>>, q.end)
                   ELSE q
         [] tk.kind = "open" -> RefTail(str, tk.end, TRUE)

\* first is TRUE when no item of the list has been read
RefTail(str, i, first) ==
    LET tk   == Token(str, i)
        item == RefExpr(str, i, first)
        rest == RefTail(str, item.end, FALSE)
        last == RefExpr(str, tk.end, FALSE)
        cl   == Token(str, last.end)
    IN CASE tk.kind = "close" -> RefOk(<<"nil">>, tk.end)
         [] tk.kind = "dot" /\ ~first ->
                IF ~last.ok THEN last
                ELSE IF cl.kind = "close" THEN RefOk(last.val, cl.end)
                ELSE IF cl.kind = "eof" THEN RefFail("open", 0)
                ELSE RefFail("afterdot", cl.end)
         [] OTHER ->
                IF ~item.ok THEN item
                ELSE IF ~rest.ok THEN rest
                ELSE RefOk(<<"pair", item.val, rest.val>>, rest.end)

\* what the grammar says of the last call
RefLast == RefExpr(lib, hist.start, FALSE)

\* C15: read_expr returns Error_Syntax, and no other error, exactly when no
\* expression of the grammar starts at the position it is called at: when the
\* input ends inside a list, at a ")" where an expression is expected, at a lone
\* "." before the first item of a list, and at anything but ")" after the
\* expression that follows a dot.  When it returns Error_OK, it has read the
\* expression that starts there, and the end it returns is the end of that
\* expression, which is where the next call starts: the calls read the
\* expressions of the text in order, each once.
ReaderErrorsAndEnd ==
    hist.calls > 0 =>
        /\ fault = "none"
        /\ hist.err = (IF RefLast.ok THEN Error_OK ELSE Error_Syntax)
        /\ RefLast.why \in {"none", "open", "close", "dot", "afterdot"}
        /\ hist.err = Error_OK =>
              /\ hist.end = RefLast.end
              /\ Abs(HeapMachine, hist.val) = RefLast.val
              /\ libpos = hist.end
              /\ pc = "read"
        /\ hist.err # Error_OK => pc = "stop" /\ libpos = hist.start

\* two calls have read an expression each, and the third, started where the
\* second ended, has failed on a lone dot before the first item of a list
ReaderErrorsAndEndWitness ==
    /\ hist.calls = 3
    /\ hist.start > 2
    /\ hist.err = Error_Syntax
    /\ RefLast.why = "dot"

-----------------------------------------------------------------------------
(* Properties of calls (checked under Spec) *)

\* the value genv binds the symbol of that name to; Nil when there is none
GlobalValue(name) ==
    LET s == Machine
        y == SymLookup(s, sym_table, name)
    IN IF nilp(y) THEN Nil ELSE LocalValue(s, genv, y)

\* C16: when the operator of a call has evaluated to a macro, the macro is
\* applied, as a closure, to the list of the argument expressions as they stand
\* in the call, none of which has been evaluated in the form so far; they are
\* bound to the parameters in a fresh environment whose parent is the one the
\* macro has captured, and the body runs there.  When the body has returned,
\* its value becomes the expression evaluated next, in the environment the call
\* form was evaluated in, in place of the call; a macro call that ends is
\* expanded once.  The macro stays a macro.  The scenario prints second, 3, f,
\* 11, z, mz, g, 1, n, inc, n, 1 and 1.
MacroProtocol ==
    /\ (fault = "none" /\ hist.macro.op # Nil) =>
          LET s    == Machine
              m    == hist.macro
              c    == hist.call
              pos  == Positional(s, car(s, cdr(s, m.op)))
              args == ListSeq(s, m.args)
          IN /\ m.op.type = "Macro"
             /\ list_get(s, m.frame, F_OP) = m.op
             /\ c.op = Retag(m.op, "Closure")
             /\ c.args = m.args
             /\ \A i \in DOMAIN args : Evals(args[i]) = 0
             /\ car(s, c.env) = car(s, m.op)
             /\ c.env.v >= c.brk
             /\ err = Error_OK =>
                   /\ env = c.env
                   /\ \A i \in DOMAIN pos :
                         (\A j \in (i + 1)..Len(pos) : pos[j] # pos[i])
                             => LocalValue(s, c.env, pos[i]) = args[i]
    /\ (fault = "none" /\ hist.expanded # 0) =>
          /\ err = Error_OK
          /\ expr = result
          /\ hist.expanded \in DOMAIN hist.sites
          /\ env = hist.sites[hist.expanded]
          /\ stack = car(Machine, PairAtom(hist.expanded))
    /\ hist.mexps <= hist.mcalls
    /\ (hist.name = "macro" /\ pc \in {"mainret", "done"}) => hist.mexps = hist.mcalls
    /\ (hist.name = "macro" /\ pc = "done") =>
          /\ out = <<<<"s", "e", "c", "o", "n", "d">>, <<"3">>, <<"f">>, <<"1", "1">>,
                     <<"z">>, <<"m", "z">>, <<"g">>, <<"1">>, <<"n">>, <<"i", "n", "c">>,
                     <<"n">>, <<"1">>, <<"1">>>>
          /\ GlobalValue(<<"s", "e", "c", "o", "n", "d">>).type = "Macro"
          /\ GlobalValue(<<"m", "z">>).type = "Macro"
          /\ GlobalValue(<<"i", "n", "c">>).type = "Macro"

\* inside the closure f, the macro second has returned the expression (+ y 1),
\* its second argument, which is evaluated next in the environment of f's body
MacroProtocolWitness ==
    /\ hist.name = "macro"
    /\ fault = "none"
    /\ hist.expanded # 0
    /\ env # genv
    /\ print_expr(Machine, expr) = <<"(", "+", " ", "y", " ", "1", ")">>
    /\ Evals(expr) = 0

\* the frames of the current top-level form that were pushed for a call form,
\* (e0 e1 ... en) with e0 the expression evaluated first, and whose operator,
\* once evaluated, is a procedure
CallFrames ==
    {f \in DOMAIN hist.frames :
        LET fr == hist.frames[f]
        IN /\ fr.exprs[1] = car(Machine, fr.form)
           /\ fr.vals # <<>> => fr.vals[1].type \in {"Builtin", "Closure"}}

\* C17: in a call form (e0 e1 ... en), of which e0 is evaluated and yields a
\* procedure, the expressions evaluated for the frame are e0, e1, ..., en in
\* this order, each once, each after the value of the one before it has been
\* stored; the procedure is applied when all have been evaluated, it is the
\* value of e0, and its argument list holds the values of e1 ... en in this
\* order.  A builtin is called on that very list when eval_expr comes to the
\* form (builtin . args) that eval_do_apply leaves as the next expression: the
\* values are not evaluated.  The scenario prints f, (1 2 3), 7, (+ 1 2),
\* (car 1) and ((- 1) (1 . 2) (1 2 3)).
ArgumentsEvaluatedInOrder ==
    /\ fault = "none" =>
          \A f \in CallFrames :
              LET s  == Machine
                  fr == hist.frames[f]
                  es == ListSeq(s, fr.form)
              IN /\ Len(fr.exprs) <= Len(es)
                 /\ fr.exprs = SubSeq(es, 1, Len(fr.exprs))
                 /\ Len(fr.vals) \in {Len(fr.exprs) - 1, Len(fr.exprs)}
                 /\ (hist.applied.frame.v = f /\ hist.applied.first) =>
                       /\ fr.exprs = es
                       /\ Len(fr.vals) = Len(es)
                       /\ hist.applied.op = fr.vals[1]
                       /\ ListSeq(s, hist.applied.args) = Tail(fr.vals)
                       /\ (hist.applied.op.type = "Builtin" /\ err = Error_OK) =>
                             /\ pc = "eval"
                             /\ car(s, expr) = hist.applied.op
                             /\ cdr(s, expr) = hist.applied.args
                             /\ \A i \in 2..Len(fr.vals) : Evals(fr.vals[i]) = 0
    /\ (hist.name = "order" /\ pc = "done") =>
          out = <<<<"f">>, <<"(", "1", " ", "2", " ", "3", ")">>, <<"7">>,
                  <<"(", "+", " ", "1", " ", "2", ")">>, <<"(", "c", "a", "r", " ", "1", ")">>,
                  <<"(", "(", "-", " ", "1", ")", " ", "(", "1", " ", ".", " ", "2", ")",
                    " ", "(", "1", " ", "2", " ", "3", ")", ")">>>>

\* the closure f is applied to the values 1, 2 and 3 of its three argument forms
ArgumentsEvaluatedInOrderWitness ==
    /\ hist.name = "order"
    /\ fault = "none"
    /\ hist.applied.first
    /\ hist.applied.op.type = "Closure"
    /\ hist.applied.frame.v \in CallFrames
    /\ ListSeq(Machine, hist.applied.args) = <<make_int(1), make_int(2), make_int(3)>>
    /\ \A i \in 2..4 : hist.frames[hist.applied.frame.v].exprs[i].type = "Pair"

\* eval_expr has returned an error for a top-level form that is a define or a
\* defmacro
DefineFailed ==
    /\ pc \in {"mainret", "loadret"}
    /\ fault = "none"
    /\ err # Error_OK
    /\ expr.type = "Pair"
    /\ car(Machine, expr) \in {sym_define(Machine), sym_defmacro(Machine)}

\* C18: when eval_expr returns an error for a define or a defmacro form, its
\* last iteration, the one that has found the error, has set no binding: the
\* name is bound as it was, or unbound as it was.
FailedDefineBindsNothing ==
    DefineFailed => hist.lastset.sym = Nil

\* the frames of the current top-level form that were pushed for a form
\* (e0 e1 ... en) whose head is no special-form symbol, as long as they are
\* allocated
HeadFrames ==
    {f \in DOMAIN hist.frames :
        /\ Live(Machine, PairAtom(f))
        /\ hist.frames[f].exprs[1] = car(Machine, hist.frames[f].form)}

\* C19: in a form (e0 e1 ... en) whose head is no special-form symbol, once e0
\* has been evaluated the op slot of the frame holds its value, whatever the
\* values of the arguments stored since, and what is applied is that value.
OperatorIsValueOfHead ==
    fault = "none" =>
        \A f \in HeadFrames :
            LET s  == Machine
                fr == hist.frames[f]
            IN fr.vals # <<>> =>
                  /\ list_get(s, PairAtom(f), F_OP) = fr.vals[1]
                  /\ (hist.applied.frame.v = f /\ hist.applied.first) =>
                        hist.applied.op = fr.vals[1]

\* the function and the list of the apply scenario that is running
ApplyFn == ApplyFns[((hist.arg - 1) \div Len(ApplyLists)) + 1]

ApplyList == ApplyLists[((hist.arg - 1) % Len(ApplyLists)) + 1]

\* what both paths are to print: the message of the error, "" when none is due
ApplyError ==
    IF ~ApplyList.list THEN ErrorTag(Error_Syntax)
    ELSE IF ~ApplyFn.proc THEN ErrorTag(Error_Type)
    ELSE IF ApplyList.len \notin ApplyFn.lo..ApplyFn.hi THEN ErrorTag(Error_Args)
    ELSE ""

\* C20: (apply f xs) through the special form and through the builtin apply,
\* reached under the name ap, print the same: Syntax error when xs is no list,
\* else Wrong type when f is no procedure, else Wrong number of arguments when f
\* does not take as many arguments as xs has elements, else the same value.
\* On neither path are the elements of xs evaluated: the closure's parameters
\* are bound to elements that eval_expr has not had as its expression, and
\* applied to ((+ 1 2)) the identity yields (+ 1 2) and car yields +.
ApplyPathsAgree ==
    hist.name = "apply" =>
        /\ fault = "none"
        /\ (hist.lines >= 2 /\ hist.call.op # Nil) =>
              \A x \in Range(ListSeq(Machine, hist.call.args)) : Evals(x) = 0
        /\ pc = "done" =>
              /\ Len(out) = 4
              /\ out[3] = out[4]
              /\ ApplyError # "" => out[3] = <<ApplyError>>
              /\ ApplyError = "" =>
                    \A e \in {Error_Syntax, Error_Unbound, Error_Args, Error_Type} :
                        out[3] # <<ErrorTag(e)>>
              /\ (ApplyFn.lo = 1 /\ ApplyFn.hi = 1
                    /\ ApplyList.text = <<"(", "q", "u", "o", "t", "e", " ", "(", "(", "+", " ",
                                         "1", " ", "2", ")", ")", ")">>)
                    => out[3] = IF ApplyFn.text = <<"c", "a", "r">> THEN <<"+">>
                                ELSE <<"(", "+", " ", "1", " ", "2", ")">>

\* both paths have applied the identity to ((+ 1 2)) and printed (+ 1 2)
ApplyPathsAgreeWitness ==
    /\ hist.name = "apply"
    /\ pc = "done"
    /\ fault = "none"
    /\ ApplyFn.text = <<"(", "l", "a", "m", "b", "d", "a", " ", "(", "x", ")", " ", "x", ")">>
    /\ out[3] = <<"(", "+", " ", "1", " ", "2", ")">>
    /\ out[4] = out[3]

\* the symbols the rebinding scenario that is running rebinds, and the value
RebindSet ==
    LET i == ((hist.arg - 1) \div Len(RebindVals)) + 1
    IN IF i <= Len(RebindSyms) THEN {i} ELSE DOMAIN RebindSyms

RebindVal == ((hist.arg - 1) % Len(RebindVals)) + 1

\* what the forms of Probes print: a, 2, x, 4, m and 5
ProbesOut == <<<<"a">>, <<"2">>, <<"x">>, <<"4">>, <<"m">>, <<"5">>>>

\* C21: the special forms are told by the symbol at the head of the form, not
\* by what the environment binds it to: once quote, define, if, lambda,
\* defmacro or apply, or all of them one after the other, have been bound by
\* define to an integer, a builtin or a closure, they are bound to it in the
\* global environment, and the forms headed by the six symbols print what they
\* printed before: a, 2, x, 4, m and 5.
SpecialFormsBySymbolIdentity ==
    (hist.name = "rebind" /\ pc = "done") =>
        LET k == Cardinality(RebindSet)
        IN /\ fault = "none"
           /\ Len(out) = 12 + k
           /\ SubSeq(out, 1, 6) = ProbesOut
           /\ SubSeq(out, 7, 6 + k) =
                 IF k = 1 THEN <<RebindSyms[CHOOSE i \in RebindSet : TRUE]>> ELSE RebindSyms
           /\ SubSeq(out, 7 + k, 12 + k) = ProbesOut
           /\ \A i \in RebindSet :
                 GlobalValue(RebindSyms[i]).type = <<"Integer", "Builtin", "Closure">>[RebindVal]

\* all the six symbols are bound to the builtin car, and the forms have printed
\* the same again
SpecialFormsBySymbolIdentityWitness ==
    /\ hist.name = "rebind"
    /\ pc = "done"
    /\ fault = "none"
    /\ Cardinality(RebindSet) = 6
    /\ \A i \in RebindSet : GlobalValue(RebindSyms[i]) = make_builtin(FnPtr("car"))
    /\ SubSeq(out, 13, 18) = ProbesOut

\* C22: the cells of a closure or macro, and those its parameter list and its
\* body are made of, stay as they were when it was made, as long as they are
\* allocated; list_set and list_reverse write to cells that make_frame has
\* allocated and to cells that store_arg has consed onto the evaluated
\* arguments, and to no other.  The scenario prints two, f, 11, 21, g, k,
\* (2 . 1), (2 . 1), h, (4 . 3) and (1 2 . 3).
ClosureCellsNeverModified ==
    /\ \A a \in DOMAIN hist.closed \cap DOMAIN mem :
          /\ mem[a].car = hist.closed[a].car
          /\ mem[a].cdr = hist.closed[a].cdr
    /\ hist.touched \subseteq hist.framecells \cup hist.acccells
    /\ (hist.name = "frames" /\ pc = "done") =>
          out = <<<<"t", "w", "o">>, <<"f">>, <<"1", "1">>, <<"2", "1">>, <<"g">>, <<"k">>,
                  <<"(", "2", " ", ".", " ", "1", ")">>, <<"(", "2", " ", ".", " ", "1", ")">>,
                  <<"h">>, <<"(", "4", " ", ".", " ", "3", ")">>,
                  <<"(", "1", " ", "2", " ", ".", " ", "3", ")">>>>

\* a macro has been handed, in its frame, argument expressions that are cells
\* of the body of a closure, and evaluated arguments have been reversed
ClosureCellsNeverModifiedWitness ==
    /\ hist.name = "frames"
    /\ fault = "none"
    /\ hist.macro.op # Nil
    /\ hist.macro.args.v \in DOMAIN hist.closed
    /\ hist.macro.args.v \in DOMAIN mem
    /\ hist.touched \cap hist.acccells # {}
    /\ hist.lines >= 3

====
